---- MODULE Spec2Model ----
(***************************************************************************)
(* The Xonix territory-claiming engine (src/src/games/xonix/game.py) as a  *)
(* state machine: the grid, the player trail state machine, the flood-fill *)
(* region claimer and the enemy bounce physics, driven by the run loop.    *)
(*                                                                         *)
(* A cell is the pair <<x, y>>; the code's grid[y][x] is grid[<<x, y>>].   *)
(* A percentage is kept exactly, as the numerator of a fraction whose      *)
(* denominator is the interior cell count Total: the code's                *)
(* (claimed / total) * 100 is the number calculate_percentage(g) / Total.  *)
(***************************************************************************)
EXTENDS Integers, Sequences, FiniteSets, TLC

(* ------------------------------------------------------------------ *)
(* Constants of the program                                            *)
(* ------------------------------------------------------------------ *)

\* The board of the program is 70 x 50 cells; the model checks a board of
\* GRID_WIDTH x GRID_HEIGHT cells, with the same one-cell border ring.
GRID_WIDTH == 5

GRID_HEIGHT == 5

\* The program starts INITIAL_ENEMIES = 3 enemies; the model starts this many.
INITIAL_ENEMIES == 1

\* At most this many arrow keys are held down in one tick.
MaxKeysHeld == 1

GRID_SIZE == 10

RADIUS == 8

SPEED == 2

EMPTY == 0

CLAIMED == 1

BORDER == 2

TRAIL == 3

TARGET_PERCENTAGE == 75

WINDOW_WIDTH == GRID_SIZE * GRID_WIDTH

\* The pixel height of the play field (the window adds 60 pixels of UI).
FIELD_HEIGHT == GRID_HEIGHT * GRID_SIZE

MSG_NONE == ""

MSG_OWN_TRAIL == "Hit your own trail!"

MSG_VICTORY == "Victory!"

MSG_ENEMY_TRAIL == "Enemy hit your trail!"

MSG_ENEMY_PLAYER == "Enemy hit you!"

(* ------------------------------------------------------------------ *)
(* State                                                               *)
(* ------------------------------------------------------------------ *)

VARIABLES
  grid,       \* [Cells -> cell state]
  player_x,
  player_y,
  enemies,    \* sequence of [x, y, vx, vy]; every enemy has radius RADIUS
  trail,      \* sequence of cells
  drawing,
  score,      \* numerator over Total, see calculate_percentage
  game_over,
  game_won,
  message,
  phase,      \* position in the run loop: "move" or "enemies"
  op,         \* the operation that produced this state ("start": run's
              \* first reset_game_state; "reset": one asked for with SPACE)
  branch,     \* the branch of _process_movement it took, or why none was taken
              \* (after update_enemies: whether an enemy bounced)
  dest,       \* the cell the tick's move command asked for: the player's
              \* own cell when handle_movement read no arrow key as down
  bounced,    \* the enemies (indices) whose velocity the last
              \* update_enemies reversed
  claim_pass, \* the locals of a claim_territory call in progress (its scan
              \* position, flood_fill's stack, visited and area)
  para,       \* ParatrooperGame: its fields, as one record
  config,     \* XonixGame's class attributes GRID_WIDTH, GRID_HEIGHT and
              \* TARGET_PERCENTAGE, as the session was set up with
  snake,          \* SnakeGame: the cells of the snake, head first
  direction,      \* SnakeGame
  next_direction, \* SnakeGame
  food,           \* SnakeGame: a cell, or <<>> for None
  snake_score,    \* SnakeGame.score
  speed,          \* SnakeGame
  snake_over      \* SnakeGame.game_over

game == <<grid, player_x, player_y, enemies, trail, drawing, score,
          game_over, game_won, message>>

snake_game == <<snake, direction, next_direction, food, snake_score,
                speed, snake_over>>

vars == <<grid, player_x, player_y, enemies, trail, drawing, score,
          game_over, game_won, message, phase, op, branch, dest,
          bounced, claim_pass, para, config, snake_game>>

Cells == (0 .. GRID_WIDTH - 1) \X (0 .. GRID_HEIGHT - 1)

Interior == (1 .. GRID_WIDTH - 2) \X (1 .. GRID_HEIGHT - 2)

Ring == Cells \ Interior

Total == (GRID_WIDTH - 2) * (GRID_HEIGHT - 2)

InGrid(c) == /\ 0 <= c[1] /\ c[1] < GRID_WIDTH
             /\ 0 <= c[2] /\ c[2] < GRID_HEIGHT

Range(s) == {s[i] : i \in DOMAIN s}

Arrows == {"UP", "DOWN", "LEFT", "RIGHT"}

\* The key states a tick may sample: at most MaxKeysHeld arrow keys down.
KeyStates == {k \in SUBSET Arrows : Cardinality(k) <= MaxKeysHeld}

\* The game state as one value, for the operations that transform it.
Game == [grid |-> grid, player_x |-> player_x, player_y |-> player_y,
         enemies |-> enemies, trail |-> trail, drawing |-> drawing,
         score |-> score, game_over |-> game_over, game_won |-> game_won,
         message |-> message]

(* ------------------------------------------------------------------ *)
(* GridModel                                                           *)
(* ------------------------------------------------------------------ *)

\* Reads the world outside the play field as Empty.
get_cell_state_OutsideEmpty(g, x, y) ==
  IF InGrid(<<x, y>>) THEN g[<<x, y>>] ELSE EMPTY

get_cell_state(g, x, y) ==
  IF InGrid(<<x, y>>) THEN g[<<x, y>>] ELSE BORDER

is_on_border_or_claimed(g, x, y) ==
  get_cell_state(g, x, y) \in {BORDER, CLAIMED}

\* Counts the cells still Empty instead of the cells taken.
calculate_percentage_CountsEmpty(g) ==
  IF Total > 0
  THEN 100 * Cardinality({c \in Interior : g[c] = EMPTY})
  ELSE 0

\* (claimed / total) * 100 as the numerator claimed * 100 over Total.
calculate_percentage(g) ==
  IF Total > 0
  THEN 100 * Cardinality({c \in Interior : g[c] \in {CLAIMED, BORDER}})
  ELSE 0

\* score >= TARGET_PERCENTAGE, on numerators over Total.
ReachesTarget(p) ==
  p >= TARGET_PERCENTAGE * Total

(* ------------------------------------------------------------------ *)
(* RegionClaimer                                                       *)
(* ------------------------------------------------------------------ *)

Quantized(e) == <<e.x \div GRID_SIZE, e.y \div GRID_SIZE>>

\* The while loop of flood_fill: pop; a cell that is visited, out of range
\* or not Empty is dropped (continue); any other cell is collected and its
\* four neighbours are pushed. One step here takes the pops up to and
\* including the next cell collected: the entries above it on the stack are
\* the ones the loop drops.
\* The loop that pushes three neighbours and leaves out the one to the left.
RECURSIVE FloodLoop_NoLeftNeighbour(_, _, _, _)
FloodLoop_NoLeftNeighbour(g, stack, visited, area) ==
  LET live == {i \in DOMAIN stack : /\ stack[i] \notin visited
                                    /\ InGrid(stack[i])
                                    /\ g[stack[i]] = EMPTY}
  IN  IF live = {}
      THEN [area |-> area, visited |-> visited]
      ELSE LET k == CHOOSE i \in live : \A j \in live : j <= i
               c == stack[k]
           IN  FloodLoop_NoLeftNeighbour(g,
                         SubSeq(stack, 1, k - 1)
                           \o << <<c[1], c[2] + 1>>, <<c[1], c[2] - 1>>,
                                 <<c[1] + 1, c[2]>> >>,
                         visited \cup {c},
                         Append(area, c))

RECURSIVE FloodLoop(_, _, _, _)
FloodLoop(g, stack, visited, area) ==
  LET live == {i \in DOMAIN stack : /\ stack[i] \notin visited
                                    /\ InGrid(stack[i])
                                    /\ g[stack[i]] = EMPTY}
  IN  IF live = {}
      THEN [area |-> area, visited |-> visited]
      ELSE LET k == CHOOSE i \in live : \A j \in live : j <= i
               c == stack[k]
           IN  FloodLoop(g,
                         SubSeq(stack, 1, k - 1)
                           \o << <<c[1], c[2] + 1>>, <<c[1], c[2] - 1>>,
                                 <<c[1] + 1, c[2]>>, <<c[1] - 1, c[2]>> >>,
                         visited \cup {c},
                         Append(area, c))

flood_fill(g, en, start_x, start_y) ==
  LET r == FloodLoop(g, << <<start_x, start_y>> >>, {}, <<>>)
  IN  [area |-> r.area,
       has_enemy |-> \E i \in DOMAIN en : Quantized(en[i]) \in r.visited]

\* The interior cells in the order of the two nested range() loops.
ScanOrder == [i \in 1 .. Total |->
     << 1 + ((i - 1) % (GRID_WIDTH - 2)), 1 + ((i - 1) \div (GRID_WIDTH - 2)) >>]

\* Turns the trail to Claimed.
MarkTrail_AsClaimed(g, tr) ==
  [c \in Cells |-> IF c \in Range(tr) THEN CLAIMED ELSE g[c]]

MarkTrail(g, tr) ==
  [c \in Cells |-> IF c \in Range(tr) THEN BORDER ELSE g[c]]

\* The iteration that claims the region whether or not it holds an enemy.
ScanCell_IgnoreEnemies(g, en, c) ==
  IF g[c] = EMPTY
  THEN LET f == flood_fill(g, en, c[1], c[2])
       IN  IF f.area # <<>>
           THEN [d \in Cells |-> IF d \in Range(f.area) THEN CLAIMED ELSE g[d]]
           ELSE g
  ELSE g

\* One iteration of the scan, on the grid as the earlier iterations left it.
ScanCell(g, en, c) ==
  IF g[c] = EMPTY
  THEN LET f == flood_fill(g, en, c[1], c[2])
       IN  IF ~f.has_enemy /\ f.area # <<>>
           THEN [d \in Cells |-> IF d \in Range(f.area) THEN CLAIMED ELSE g[d]]
           ELSE g
  ELSE g

\* The scan that returns as soon as it has claimed one region.
RECURSIVE ClaimScan_StopAfterFirst(_, _, _)
ClaimScan_StopAfterFirst(g, en, i) ==
  IF i > Total THEN g
  ELSE LET h == ScanCell(g, en, ScanOrder[i])
       IN  IF h # g THEN h ELSE ClaimScan_StopAfterFirst(h, en, i + 1)

RECURSIVE ClaimScan(_, _, _)
ClaimScan(g, en, i) ==
  IF i > Total THEN g
  ELSE ClaimScan(ScanCell(g, en, ScanOrder[i]), en, i + 1)

\* The calls of flood_fill that the scan makes from cell i of ScanOrder on,
\* in order: the start cell of each and the area it returned.
RECURSIVE FloodFillsOfScan(_, _, _)
FloodFillsOfScan(g, en, i) ==
  IF i > Total THEN <<>>
  ELSE LET c == ScanOrder[i]
       IN  IF g[c] = EMPTY
           THEN << [start |-> c, area |-> flood_fill(g, en, c[1], c[2]).area] >>
                  \o FloodFillsOfScan(ScanCell(g, en, c), en, i + 1)
           ELSE FloodFillsOfScan(g, en, i + 1)

\* The calls of flood_fill in one pass of claim_territory.
FloodFillsOfPass(g, tr, en) ==
  FloodFillsOfScan(MarkTrail(g, tr), en, 1)

\* Scans for regions first and turns the trail to Border afterwards.
claim_territory_MarkTrailLast(g, tr, en) ==
  MarkTrail(ClaimScan(g, en, 1), tr)

claim_territory(g, tr, en) ==
  ClaimScan(MarkTrail(g, tr), en, 1)

(* ------------------------------------------------------------------ *)
(* TrailStateMachine                                                   *)
(* ------------------------------------------------------------------ *)

\* The chain without its test for the player's own trail.
BranchOf_NoSelfHit(s, new_x, new_y) ==
  LET cell_state == get_cell_state(s.grid, new_x, new_y)
  IN  IF ~s.drawing /\ cell_state = EMPTY THEN "start"
      ELSE IF s.drawing /\ is_on_border_or_claimed(s.grid, new_x, new_y) THEN "close"
      ELSE IF s.drawing /\ cell_state = EMPTY THEN "continue"
      ELSE IF ~s.drawing THEN "safe"
      ELSE "none"

\* The branch of _process_movement that a move to <<new_x, new_y>> takes.
BranchOf(s, new_x, new_y) ==
  LET cell_state == get_cell_state(s.grid, new_x, new_y)
  IN  IF ~s.drawing /\ cell_state = EMPTY THEN "start"
      ELSE IF s.drawing /\ <<new_x, new_y>> \in Range(s.trail) THEN "selfhit"
      ELSE IF s.drawing /\ is_on_border_or_claimed(s.grid, new_x, new_y) THEN "close"
      ELSE IF s.drawing /\ cell_state = EMPTY THEN "continue"
      ELSE IF ~s.drawing THEN "safe"
      ELSE "none"

\* Starts the trail with the cell the player left.
StartDrawing_FromOldCell(s, new_x, new_y) ==
  [s EXCEPT !.drawing = TRUE,
            !.trail = << <<s.player_x, s.player_y>> >>,
            !.player_x = new_x,
            !.player_y = new_y]

StartDrawing(s, new_x, new_y) ==
  [s EXCEPT !.drawing = TRUE,
            !.trail = << <<new_x, new_y>> >>,
            !.player_x = new_x,
            !.player_y = new_y]

\* Clears the trail when the player runs into it.
HitOwnTrail_ClearsTrail(s, new_x, new_y) ==
  [s EXCEPT !.game_over = TRUE,
            !.message = MSG_OWN_TRAIL,
            !.trail = <<>>]

HitOwnTrail(s, new_x, new_y) ==
  [s EXCEPT !.game_over = TRUE,
            !.message = MSG_OWN_TRAIL]

\* Takes the score from the grid as it was before the claim.
CompleteTrail_ScoreBeforeClaim(s, new_x, new_y) ==
  LET g == claim_territory(s.grid, s.trail, s.enemies)
      p == calculate_percentage(s.grid)
  IN  [s EXCEPT !.drawing = FALSE,
                !.grid = g,
                !.trail = <<>>,
                !.player_x = new_x,
                !.player_y = new_y,
                !.score = p,
                !.game_won = IF ReachesTarget(p) THEN TRUE ELSE s.game_won,
                !.message = IF ReachesTarget(p) THEN MSG_VICTORY ELSE s.message]

\* Checks the win on the trail turned to Border, before the regions are claimed.
CompleteTrail_WinBeforeClaim(s, new_x, new_y) ==
  LET g == claim_territory(s.grid, s.trail, s.enemies)
      p == calculate_percentage(g)
      w == ReachesTarget(calculate_percentage(MarkTrail(s.grid, s.trail)))
  IN  [s EXCEPT !.drawing = FALSE,
                !.grid = g,
                !.trail = <<>>,
                !.player_x = new_x,
                !.player_y = new_y,
                !.score = p,
                !.game_won = IF w THEN TRUE ELSE s.game_won,
                !.message = IF w THEN MSG_VICTORY ELSE s.message]

\* The closure that advances the enemies by their velocity before it
\* claims.
CompleteTrail_AdvancesEnemies(s, new_x, new_y) ==
  LET a == [i \in DOMAIN s.enemies |->
              [s.enemies[i] EXCEPT !.x = @ + s.enemies[i].vx,
                                   !.y = @ + s.enemies[i].vy]]
      g == claim_territory(s.grid, s.trail, a)
      p == calculate_percentage(g)
  IN  [s EXCEPT !.drawing = FALSE,
                !.grid = g,
                !.enemies = a,
                !.trail = <<>>,
                !.player_x = new_x,
                !.player_y = new_y,
                !.score = p,
                !.game_won = IF ReachesTarget(p) THEN TRUE ELSE s.game_won,
                !.message = IF ReachesTarget(p) THEN MSG_VICTORY ELSE s.message]

CompleteTrail(s, new_x, new_y) ==
  LET g == claim_territory(s.grid, s.trail, s.enemies)
      p == calculate_percentage(g)
  IN  [s EXCEPT !.drawing = FALSE,
                !.grid = g,
                !.trail = <<>>,
                !.player_x = new_x,
                !.player_y = new_y,
                !.score = p,
                !.game_won = IF ReachesTarget(p) THEN TRUE ELSE s.game_won,
                !.message = IF ReachesTarget(p) THEN MSG_VICTORY ELSE s.message]

\* Puts the new cell at the front of the trail.
ContinueDrawing_Prepends(s, new_x, new_y) ==
  [s EXCEPT !.trail = << <<new_x, new_y>> >> \o s.trail,
            !.player_x = new_x,
            !.player_y = new_y]

\* Paints the new cell into the grid as well.
ContinueDrawing_StoresTrail(s, new_x, new_y) ==
  [s EXCEPT !.grid = [s.grid EXCEPT ![<<new_x, new_y>>] = TRAIL],
            !.trail = Append(s.trail, <<new_x, new_y>>),
            !.player_x = new_x,
            !.player_y = new_y]

ContinueDrawing(s, new_x, new_y) ==
  [s EXCEPT !.trail = Append(s.trail, <<new_x, new_y>>),
            !.player_x = new_x,
            !.player_y = new_y]

\* Starts a trail on safe ground.
MoveOnSafe_StartsTrail(s, new_x, new_y) ==
  [s EXCEPT !.drawing = TRUE,
            !.trail = << <<new_x, new_y>> >>,
            !.player_x = new_x,
            !.player_y = new_y]

MoveOnSafe(s, new_x, new_y) ==
  [s EXCEPT !.player_x = new_x,
            !.player_y = new_y]

_process_movement(s, new_x, new_y) ==
  LET b == BranchOf(s, new_x, new_y)
  IN  IF b = "start" THEN StartDrawing(s, new_x, new_y)
      ELSE IF b = "selfhit" THEN HitOwnTrail(s, new_x, new_y)
      ELSE IF b = "close" THEN CompleteTrail(s, new_x, new_y)
      ELSE IF b = "continue" THEN ContinueDrawing(s, new_x, new_y)
      ELSE IF b = "safe" THEN MoveOnSafe(s, new_x, new_y)
      ELSE s

\* The if / elif chain over the pressed keys: the cell asked for, or the
\* player's own cell when no arrow key is down.
Target(s, keys) ==
  IF "UP" \in keys THEN <<s.player_x, s.player_y - 1>>
  ELSE IF "DOWN" \in keys THEN <<s.player_x, s.player_y + 1>>
  ELSE IF "LEFT" \in keys THEN <<s.player_x - 1, s.player_y>>
  ELSE IF "RIGHT" \in keys THEN <<s.player_x + 1, s.player_y>>
  ELSE <<s.player_x, s.player_y>>

Moved(keys) == keys \cap Arrows # {}

Terminal(s) == s.game_over \/ s.game_won

\* Why handle_movement does or does not reach _process_movement.
MoveKind(s, keys) ==
  IF Terminal(s) THEN "terminal"
  ELSE IF ~Moved(keys) THEN "nokey"
  ELSE IF ~InGrid(Target(s, keys)) THEN "rejected"
  ELSE BranchOf(s, Target(s, keys)[1], Target(s, keys)[2])

\* handle_movement without its early return on a finished session.
handle_movement_NoTerminalGuard(s, keys) ==
  IF Moved(keys) /\ InGrid(Target(s, keys))
  THEN _process_movement(s, Target(s, keys)[1], Target(s, keys)[2])
  ELSE s

\* handle_movement without the range test on the destination.
handle_movement_NoBoundsCheck(s, keys) ==
  IF Terminal(s) THEN s
  ELSE IF Moved(keys)
       THEN _process_movement(s, Target(s, keys)[1], Target(s, keys)[2])
       ELSE s

handle_movement(s, keys) ==
  IF Terminal(s) THEN s
  ELSE IF Moved(keys) /\ InGrid(Target(s, keys))
       THEN _process_movement(s, Target(s, keys)[1], Target(s, keys)[2])
       ELSE s

(* ------------------------------------------------------------------ *)
(* EnemySimulator                                                      *)
(* ------------------------------------------------------------------ *)

Solid(g, e) ==
  /\ InGrid(Quantized(e))
  /\ g[Quantized(e)] \in {BORDER, CLAIMED}

\* The move that nudges a bouncing enemy before it negates the velocity:
\* further into the obstacle.
MoveEnemy_NudgesInto(g, e) ==
  LET m == [e EXCEPT !.x = e.x + e.vx, !.y = e.y + e.vy]
      hit == Solid(g, m)
      bx == m.x <= RADIUS \/ m.x >= WINDOW_WIDTH - RADIUS \/ hit
      by == m.y <= RADIUS \/ m.y >= FIELD_HEIGHT - RADIUS \/ hit
  IN  [x  |-> IF bx THEN m.x + 2 * m.vx ELSE m.x,
       y  |-> IF by THEN m.y + 2 * m.vy ELSE m.y,
       vx |-> IF bx THEN -m.vx ELSE m.vx,
       vy |-> IF by THEN -m.vy ELSE m.vy]

\* The move that quantizes the cell again for the y axis, after the x
\* axis has been nudged.
MoveEnemy_RequantizesForY(g, e) ==
  LET m == [e EXCEPT !.x = e.x + e.vx, !.y = e.y + e.vy]
      bx == m.x <= RADIUS \/ m.x >= WINDOW_WIDTH - RADIUS \/ Solid(g, m)
      n == IF bx THEN [m EXCEPT !.x = m.x + 2 * (-m.vx), !.vx = -m.vx] ELSE m
      by == n.y <= RADIUS \/ n.y >= FIELD_HEIGHT - RADIUS \/ Solid(g, n)
  IN  [x  |-> n.x,
       y  |-> IF by THEN n.y + 2 * (-n.vy) ELSE n.y,
       vx |-> n.vx,
       vy |-> IF by THEN -n.vy ELSE n.vy]

\* One enemy's move and bounce: position += velocity, then per axis the
\* reversal and the nudge by twice the reversed velocity. The cell is
\* quantized once, right after the move.
MoveEnemy(g, e) ==
  LET m == [e EXCEPT !.x = e.x + e.vx, !.y = e.y + e.vy]
      hit == Solid(g, m)
      bx == m.x <= RADIUS \/ m.x >= WINDOW_WIDTH - RADIUS \/ hit
      by == m.y <= RADIUS \/ m.y >= FIELD_HEIGHT - RADIUS \/ hit
  IN  [x  |-> IF bx THEN m.x + 2 * (-m.vx) ELSE m.x,
       y  |-> IF by THEN m.y + 2 * (-m.vy) ELSE m.y,
       vx |-> IF bx THEN -m.vx ELSE m.vx,
       vy |-> IF by THEN -m.vy ELSE m.vy]

HitRadiusSq == (RADIUS + GRID_SIZE \div 2) * (RADIUS + GRID_SIZE \div 2)

DistSq(e, c) ==
  (e.x - c[1] * GRID_SIZE) * (e.x - c[1] * GRID_SIZE)
    + (e.y - c[2] * GRID_SIZE) * (e.y - c[2] * GRID_SIZE)

_enemy_hits_trail(s, e) ==
  \E i \in DOMAIN s.trail : DistSq(e, s.trail[i]) < HitRadiusSq

_enemy_hits_player(s, e) ==
  DistSq(e, <<s.player_x, s.player_y>>) < HitRadiusSq

\* The loop that wipes the trail an enemy has hit.
RECURSIVE EnemyLoop_HitClearsTrail(_, _)
EnemyLoop_HitClearsTrail(s, i) ==
  IF i > Len(s.enemies) THEN s
  ELSE LET e == MoveEnemy(s.grid, s.enemies[i])
           s1 == [s EXCEPT !.enemies[i] = e]
       IN  IF s.drawing /\ _enemy_hits_trail(s1, e)
           THEN [s1 EXCEPT !.game_over = TRUE, !.message = MSG_ENEMY_TRAIL,
                           !.trail = <<>>]
           ELSE IF s.drawing /\ _enemy_hits_player(s1, e)
                THEN EnemyLoop_HitClearsTrail([s1 EXCEPT !.game_over = TRUE,
                                                         !.message = MSG_ENEMY_PLAYER],
                                              i + 1)
                ELSE EnemyLoop_HitClearsTrail(s1, i + 1)

\* The loop without its test against the trail: only the player's cell
\* is tested.
RECURSIVE EnemyLoop_NoTrailCheck(_, _)
EnemyLoop_NoTrailCheck(s, i) ==
  IF i > Len(s.enemies) THEN s
  ELSE LET e == MoveEnemy(s.grid, s.enemies[i])
           s1 == [s EXCEPT !.enemies[i] = e]
       IN  IF s.drawing /\ _enemy_hits_player(s1, e)
           THEN EnemyLoop_NoTrailCheck([s1 EXCEPT !.game_over = TRUE,
                                                  !.message = MSG_ENEMY_PLAYER],
                                       i + 1)
           ELSE EnemyLoop_NoTrailCheck(s1, i + 1)

\* The loop that tests for collisions whether or not a trail is drawn.
RECURSIVE EnemyLoop_NoDrawingGuard(_, _)
EnemyLoop_NoDrawingGuard(s, i) ==
  IF i > Len(s.enemies) THEN s
  ELSE LET e == MoveEnemy(s.grid, s.enemies[i])
           s1 == [s EXCEPT !.enemies[i] = e]
       IN  IF _enemy_hits_trail(s1, e)
           THEN [s1 EXCEPT !.game_over = TRUE, !.message = MSG_ENEMY_TRAIL]
           ELSE IF _enemy_hits_player(s1, e)
                THEN EnemyLoop_NoDrawingGuard([s1 EXCEPT !.game_over = TRUE,
                                                         !.message = MSG_ENEMY_PLAYER],
                                              i + 1)
                ELSE EnemyLoop_NoDrawingGuard(s1, i + 1)

\* The for loop of update_enemies from enemy i on; a trail hit breaks out
\* of the loop, a player hit does not.
RECURSIVE EnemyLoop(_, _)
EnemyLoop(s, i) ==
  IF i > Len(s.enemies) THEN s
  ELSE LET e == MoveEnemy(s.grid, s.enemies[i])
           s1 == [s EXCEPT !.enemies[i] = e]
       IN  IF s.drawing /\ _enemy_hits_trail(s1, e)
           THEN [s1 EXCEPT !.game_over = TRUE, !.message = MSG_ENEMY_TRAIL]
           ELSE IF s.drawing /\ _enemy_hits_player(s1, e)
                THEN EnemyLoop([s1 EXCEPT !.game_over = TRUE,
                                          !.message = MSG_ENEMY_PLAYER], i + 1)
                ELSE EnemyLoop(s1, i + 1)

update_enemies(s) ==
  EnemyLoop(s, 1)

\* The enemies that one update_enemies took a bounce branch for: their
\* velocity came out reversed on an axis.
Reversed(s) ==
  {i \in DOMAIN s.enemies :
     \/ update_enemies(s).enemies[i].vx # s.enemies[i].vx
     \/ update_enemies(s).enemies[i].vy # s.enemies[i].vy}

\* What the enemies did in one update_enemies: "bounce" when the step
\* reversed a velocity component of some enemy, "straight" otherwise.
StepKind(s) ==
  IF Reversed(s) # {} THEN "bounce" ELSE "straight"

(* ------------------------------------------------------------------ *)
(* SnakeGame (src/src/games/snake/game.py)                             *)
(* ------------------------------------------------------------------ *)

\* The board of Snake is 30 x 25 cells; the model checks a board of
\* SNAKE_GRID_WIDTH x SNAKE_GRID_HEIGHT cells.
SNAKE_GRID_WIDTH == 3

SNAKE_GRID_HEIGHT == 3

UP == <<0, -1>>

DOWN == <<0, 1>>

LEFT == <<-1, 0>>

RIGHT == <<1, 0>>

INITIAL_SPEED == 8

MAX_SPEED == 20

SPEED_INCREASE_THRESHOLD == 50

SnakeCells == (0 .. SNAKE_GRID_WIDTH - 1) \X (0 .. SNAKE_GRID_HEIGHT - 1)

\* The fields of a SnakeGame as one value.
Snake == [snake |-> snake, direction |-> direction,
          next_direction |-> next_direction, food |-> food,
          score |-> snake_score, speed |-> speed, game_over |-> snake_over]

\* SnakeGame.__init__: the fields before any session has run.
SnakeConstructed ==
  /\ snake = <<>>
  /\ direction = RIGHT
  /\ next_direction = RIGHT
  /\ food = <<>>
  /\ snake_score = 0
  /\ speed = INITIAL_SPEED
  /\ snake_over = FALSE

SnakeKeys == Arrows \cup {"SPACE", "OTHER", "ESCAPE"}

\* The positions spawn_food can return: the loop draws cells until one
\* is off the snake, and never returns when the snake covers the board.
spawn_food(s) == SnakeCells \ Range(s.snake)

\* reset_game_state of SnakeGame, f being the cell spawn_food returned.
snake_reset_game_state(f) ==
  [snake |-> << <<SNAKE_GRID_WIDTH \div 2, SNAKE_GRID_HEIGHT \div 2>> >>,
   direction |-> RIGHT, next_direction |-> RIGHT, food |-> f,
   score |-> 0, speed |-> INITIAL_SPEED, game_over |-> FALSE]

\* direction_map: the direction of an arrow key and its opposite.
direction_map ==
  [k \in Arrows |->
     CASE k = "UP" -> <<UP, DOWN>>
       [] k = "DOWN" -> <<DOWN, UP>>
       [] k = "LEFT" -> <<LEFT, RIGHT>>
       [] k = "RIGHT" -> <<RIGHT, LEFT>>]

_handle_direction_input_ComparesNext(s, key) ==
  IF key \in DOMAIN direction_map
  THEN LET new_direction == direction_map[key][1]
           opposite == direction_map[key][2]
       IN  IF s.next_direction # opposite
           THEN [s EXCEPT !.next_direction = new_direction]
           ELSE s
  ELSE s

_handle_direction_input(s, key) ==
  IF key \in DOMAIN direction_map
  THEN LET new_direction == direction_map[key][1]
           opposite == direction_map[key][2]
       IN  IF s.direction # opposite
           THEN [s EXCEPT !.next_direction = new_direction]
           ELSE s
  ELSE s

_check_collision(s, pos) ==
  \/ pos[1] < 0 \/ pos[1] >= SNAKE_GRID_WIDTH
  \/ pos[2] < 0 \/ pos[2] >= SNAKE_GRID_HEIGHT
  \/ pos \in Range(s.snake)

_increase_speed(s) ==
  LET raised == INITIAL_SPEED + s.score \div SPEED_INCREASE_THRESHOLD
  IN  [s EXCEPT !.speed = IF raised < MAX_SPEED THEN raised ELSE MAX_SPEED]

\* The cell update_game_state computes as new_head.
NewHead(s) ==
  <<s.snake[1][1] + s.next_direction[1], s.snake[1][2] + s.next_direction[2]>>

\* update_game_state, f being the cell spawn_food returns if it is called.
update_game_state(s, f) ==
  IF s.game_over THEN s
  ELSE LET turned == [s EXCEPT !.direction = s.next_direction]
           new_head == NewHead(s)
       IN  IF _check_collision(turned, new_head)
           THEN [turned EXCEPT !.game_over = TRUE]
           ELSE LET grown == [turned EXCEPT !.snake = <<new_head>> \o @]
                IN  IF new_head = s.food
                    THEN _increase_speed(
                           [grown EXCEPT !.score = @ + 10, !.food = f])
                    ELSE [grown EXCEPT
                            !.snake = SubSeq(@, 1, Len(@) - 1)]

\* The fields update_game_state has written when its call of spawn_food
\* finds no free cell and never returns.
UpdateUpToSpawn(s) ==
  LET turned == [s EXCEPT !.direction = s.next_direction]
  IN  [turned EXCEPT !.snake = <<NewHead(s)>> \o @, !.score = @ + 10]

\* What one call of update_game_state did.
UpdateBranch(s) ==
  IF s.game_over THEN "idle"
  ELSE IF _check_collision(s, NewHead(s)) THEN "crashed"
  ELSE IF NewHead(s) = s.food THEN "ate"
  ELSE "moved"

(* ------------------------------------------------------------------ *)
(* ParatrooperGame (src/src/games/paratrooper/game.py)                 *)
(* ------------------------------------------------------------------ *)

\* The playfield, scaled down: helicopters cross PARA_WINDOW_WIDTH (800 in
\* the program) in a few ticks and paratroopers fall PARA_WINDOW_HEIGHT
\* (600) in a few ticks.
PARA_WINDOW_WIDTH == 8

PARA_WINDOW_HEIGHT == 8

\* GROUND_HEIGHT (50 in the program).
GROUND_HEIGHT == 1

\* The 50 pixels inside which no paratrooper is dropped and beyond which a
\* helicopter has left the screen (update_helicopters).
EDGE_MARGIN == 2

\* The 20 pixels above turret_y at which a paratrooper has landed.
TURRET_CLEARANCE == 1

\* Helicopter.speed.
HELI_SPEED == 2

\* Paratrooper.speed (1.5 in the program).
PARA_SPEED == 1

\* A paratrooper is dropped 10 pixels below its helicopter.
DROP_OFFSET == 1

\* INITIAL_WAVE_HELICOPTERS (3) and MAX_WAVE_HELICOPTERS (8), scaled down.
INITIAL_WAVE_HELICOPTERS == 1

MAX_WAVE_HELICOPTERS == 2

\* SHOOT_COOLDOWN (10 in the program).
SHOOT_COOLDOWN == 1

\* The spawn timer a session and a wave start with (60 in the program).
FIRST_SPAWN_DELAY == 1

HELI_SCORE == 50

PARA_SCORE == 25

\* At most MaxBullets bullets are in flight.
MaxBullets == 1

\* random.randint(60, 120): the delay to the next spawn.
SpawnDelays == {1, 2}

\* random.randint(30, 60): a new helicopter's drop timer.  As in the
\* program, it runs out while the helicopter is inside the drop range.
FirstDropDelays == {2}

\* random.randint(40, 80): the drop timer after a drop.
NextDropDelays == {2, 3}

\* random.randint(50, 150): the altitude of a new helicopter.
HeliAltitudes == {1, 2}

\* ParatrooperGame.__init__: the fields before any session has run.
ParaConstructed ==
  [helicopters |-> <<>>, paratroopers |-> <<>>, bullets |-> <<>>,
   turret_alive |-> TRUE, score |-> 0, wave |-> 1,
   spawn_timer |-> FIRST_SPAWN_DELAY,
   wave_helicopters |-> INITIAL_WAVE_HELICOPTERS, helis_spawned |-> 0,
   shoot_cooldown |-> 0, game_over |-> FALSE, paused |-> FALSE]

\* Helicopter.__init__.
Helicopter(x, y, d, timer) ==
  [x |-> x, y |-> y, direction |-> d, alive |-> TRUE, drop_timer |-> timer]

\* Helicopter.update.
heli_update(h) ==
  [h EXCEPT !.x = h.x + HELI_SPEED * h.direction,
            !.drop_timer = h.drop_timer - 1]

should_drop(h) == h.drop_timer <= 0

\* Paratrooper.__init__; the wave logic reads a paratrooper's height and
\* its alive flag only.
Paratrooper(y) == [y |-> y, alive |-> TRUE]

\* Paratrooper.update.
para_update(p) == [p EXCEPT !.y = p.y + PARA_SPEED]

\* Bullet.__init__.  Where a bullet flies follows from the turret angle,
\* a real number the player steers; the model keeps the bullet and lets
\* update_bullets choose what it meets.
Bullet == [alive |-> TRUE]

\* turret_y as reset_game_state sets it.
turret_y == PARA_WINDOW_HEIGHT - GROUND_HEIGHT

para_reset_game_state(s) ==
  [s EXCEPT !.turret_alive = TRUE,
            !.helicopters = <<>>,
            !.paratroopers = <<>>,
            !.bullets = <<>>,
            !.score = 0,
            !.wave = 1,
            !.spawn_timer = FIRST_SPAWN_DELAY,
            !.wave_helicopters = INITIAL_WAVE_HELICOPTERS,
            !.helis_spawned = 0,
            !.shoot_cooldown = 0,
            !.game_over = FALSE]

_fire_bullet(s) ==
  [s EXCEPT !.bullets = Append(s.bullets, Bullet),
            !.shoot_cooldown = SHOOT_COOLDOWN]

\* The KEYDOWN events a tick may bring.
ParaEvents == {"none", "SPACE", "P"}

\* handle_input on one event.
para_handle_input(s, event) ==
  IF event = "P" /\ ~s.game_over
  THEN [s EXCEPT !.paused = ~s.paused]
  ELSE IF s.game_over /\ event = "SPACE"
  THEN para_reset_game_state(s)
  ELSE IF /\ event = "SPACE" /\ s.turret_alive /\ s.shoot_cooldown <= 0
          /\ ~s.paused /\ Len(s.bullets) < MaxBullets
  THEN _fire_bullet(s)
  ELSE s

\* handle_turret_rotation: the cooldown part (the angle steers bullets).
handle_turret_rotation(s) ==
  IF ~s.turret_alive \/ s.paused
  THEN s
  ELSE [s EXCEPT !.shoot_cooldown = IF @ > 0 THEN @ - 1 ELSE @]

\* spawn_helicopters with the draws of random.choice and random.randint.
spawn_helicopters(s, d, y, timer, delay) ==
  IF s.helis_spawned < s.wave_helicopters
  THEN IF s.spawn_timer - 1 <= 0
       THEN [s EXCEPT !.helicopters =
                        Append(s.helicopters,
                               Helicopter(IF d = 1 THEN 0 ELSE PARA_WINDOW_WIDTH,
                                          y, d, timer)),
                      !.helis_spawned = s.helis_spawned + 1,
                      !.spawn_timer = delay]
       ELSE [s EXCEPT !.spawn_timer = s.spawn_timer - 1]
  ELSE s

\* The loop of update_helicopters over a copy of the list: todo is the
\* rest of the copy, kept the helicopters that stay in self.helicopters.
RECURSIVE HeliLoop(_, _, _, _)
HeliLoop(s, todo, kept, delay) ==
  IF todo = <<>>
  THEN [s EXCEPT !.helicopters = kept]
  ELSE LET h == Head(todo)
       IN  IF ~h.alive
           THEN HeliLoop(s, Tail(todo), Append(kept, h), delay)
           ELSE LET h1 == heli_update(h)
                    drops == /\ should_drop(h1)
                             /\ EDGE_MARGIN < h1.x
                             /\ h1.x < PARA_WINDOW_WIDTH - EDGE_MARGIN
                    h2 == IF drops THEN [h1 EXCEPT !.drop_timer = delay] ELSE h1
                    s1 == IF drops
                          THEN [s EXCEPT !.paratroopers =
                                  Append(s.paratroopers,
                                         Paratrooper(h1.y + DROP_OFFSET))]
                          ELSE s
                    off == \/ h2.x < 0 - EDGE_MARGIN
                           \/ h2.x > PARA_WINDOW_WIDTH + EDGE_MARGIN
                IN  HeliLoop(s1, Tail(todo),
                             IF off THEN kept ELSE Append(kept, h2), delay)

update_helicopters(s, delay) == HeliLoop(s, s.helicopters, <<>>, delay)

\* The loop of update_paratroopers over a copy of the list.
RECURSIVE ParaLoop(_, _, _)
ParaLoop(s, todo, kept) ==
  IF todo = <<>>
  THEN [s EXCEPT !.paratroopers = kept]
  ELSE LET p == Head(todo)
       IN  IF ~p.alive
           THEN ParaLoop(s, Tail(todo), Append(kept, p))
           ELSE LET p1 == para_update(p)
                IN  IF p1.y >= turret_y - TURRET_CLEARANCE
                    THEN ParaLoop([s EXCEPT !.turret_alive = FALSE,
                                            !.game_over = TRUE],
                                  Tail(todo), kept)
                    ELSE IF p1.y > PARA_WINDOW_HEIGHT
                    THEN ParaLoop(s, Tail(todo), kept)
                    ELSE ParaLoop(s, Tail(todo), Append(kept, p1))

update_paratroopers(s) == ParaLoop(s, s.paratroopers, <<>>)

\* What a bullet in flight meets on one update: nothing, the edge of the
\* screen, the helicopter at index target or the paratrooper at index
\* target.
BulletFates ==
  [kind : {"fly", "off"}, target : {0}]
    \cup [kind : {"heli", "para"}, target : 1 .. MAX_WAVE_HELICOPTERS]

\* _check_bullet_helicopter_collision: the bullet, on the screen, is within
\* the box of a helicopter that is alive.
HitsHelicopter(s, f) ==
  /\ f.kind = "heli"
  /\ f.target \in DOMAIN s.helicopters
  /\ s.helicopters[f.target].alive
  /\ s.helicopters[f.target].x >= 0
  /\ s.helicopters[f.target].x <= PARA_WINDOW_WIDTH

\* _check_bullet_paratrooper_collision.
HitsParatrooper(s, f) ==
  /\ f.kind = "para"
  /\ f.target \in DOMAIN s.paratroopers
  /\ s.paratroopers[f.target].alive

\* The loop of update_bullets over a copy of the list; fates gives what
\* each bullet of the copy meets.  A target that is hit is marked and
\* stays in its list.
RECURSIVE BulletLoop(_, _, _, _)
BulletLoop(s, todo, kept, fates) ==
  IF todo = <<>>
  THEN [s EXCEPT !.bullets = kept]
  ELSE LET f == Head(fates)
       IN  IF f.kind = "off"
           THEN BulletLoop(s, Tail(todo), kept, Tail(fates))
           ELSE IF HitsHelicopter(s, f)
           THEN BulletLoop([s EXCEPT !.helicopters[f.target].alive = FALSE,
                                     !.score = s.score + HELI_SCORE],
                           Tail(todo), kept, Tail(fates))
           ELSE IF HitsParatrooper(s, f)
           THEN BulletLoop([s EXCEPT !.paratroopers[f.target].alive = FALSE,
                                     !.score = s.score + PARA_SCORE],
                           Tail(todo), kept, Tail(fates))
           ELSE BulletLoop(s, Tail(todo), Append(kept, Head(todo)),
                           Tail(fates))

update_bullets(s, fates) == BulletLoop(s, s.bullets, <<>>, fates)

Min(a, b) == IF a < b THEN a ELSE b

check_wave_completion(s) ==
  IF /\ s.helis_spawned >= s.wave_helicopters
     /\ Len(s.helicopters) = 0
     /\ Len(s.paratroopers) = 0
  THEN [s EXCEPT !.wave = s.wave + 1,
                 !.wave_helicopters =
                    Min(INITIAL_WAVE_HELICOPTERS + (s.wave + 1),
                        MAX_WAVE_HELICOPTERS),
                 !.helis_spawned = 0,
                 !.spawn_timer = FIRST_SPAWN_DELAY]
  ELSE s

\* The body of the loop of run below the event handling, with the draws
\* of the tick.
para_update_all(s, d, y, timer, spawn_delay, drop_delay, fates) ==
  check_wave_completion(
    update_bullets(
      update_paratroopers(
        update_helicopters(
          spawn_helicopters(handle_turret_rotation(s),
                            d, y, timer, spawn_delay),
          drop_delay)),
      fates))

(* ------------------------------------------------------------------ *)
(* claim_territory, statement by statement                             *)
(* ------------------------------------------------------------------ *)

\* No call of claim_territory is in progress.
NoPass == [pc |-> "idle"]

(* ------------------------------------------------------------------ *)
(* Reset                                                               *)
(* ------------------------------------------------------------------ *)

\* Draws the top and bottom rows of the ring and leaves the side columns.
InitialGrid_RowsOnly ==
  [c \in Cells |-> IF c[2] \in {0, GRID_HEIGHT - 1} THEN BORDER ELSE EMPTY]

InitialGrid ==
  [c \in Cells |-> IF c \in Ring THEN BORDER ELSE EMPTY]

\* One enemy as reset_game_state draws it: a cell corner in the middle half
\* of the board and one of the four diagonal velocities.
EnemyStarts ==
  [x  : {GRID_SIZE * k : k \in (GRID_WIDTH \div 4) .. ((3 * GRID_WIDTH) \div 4)},
   y  : {GRID_SIZE * k : k \in (GRID_HEIGHT \div 4) .. ((3 * GRID_HEIGHT) \div 4)},
   vx : {-SPEED, SPEED},
   vy : {-SPEED, SPEED}]

\* The draw the model explores: the enemy that starts in the middle of the
\* top row of the start range, heading down and right. It bounces off the
\* ring and off claimed cells in both directions, so the other velocities
\* are met on the way.
EnemyDraws ==
  {e \in EnemyStarts : /\ e.x = 2 * GRID_SIZE
                       /\ e.y = GRID_SIZE
                       /\ e.vx = SPEED
                       /\ e.vy = SPEED}

\* Puts the player on the corner of the ring.
reset_game_state_PlayerAtCorner(en) ==
  [grid |-> InitialGrid,
   player_x |-> 0,
   player_y |-> 0,
   enemies |-> en,
   trail |-> <<>>,
   drawing |-> FALSE,
   score |-> 0,
   game_over |-> FALSE,
   game_won |-> FALSE,
   message |-> MSG_NONE]

reset_game_state(en) ==
  [grid |-> InitialGrid,
   player_x |-> GRID_WIDTH \div 2,
   player_y |-> 0,
   enemies |-> en,
   trail |-> <<>>,
   drawing |-> FALSE,
   score |-> 0,
   game_over |-> FALSE,
   game_won |-> FALSE,
   message |-> MSG_NONE]

(* ------------------------------------------------------------------ *)
(* The run loop                                                        *)
(* ------------------------------------------------------------------ *)

Install(s) ==
  /\ grid' = s.grid
  /\ player_x' = s.player_x
  /\ player_y' = s.player_y
  /\ enemies' = s.enemies
  /\ trail' = s.trail
  /\ drawing' = s.drawing
  /\ score' = s.score
  /\ game_over' = s.game_over
  /\ game_won' = s.game_won
  /\ message' = s.message

\* The class attributes as the program sets them (the board at the
\* model's size).
DefaultConfig ==
  [GRID_WIDTH |-> GRID_WIDTH, GRID_HEIGHT |-> GRID_HEIGHT,
   TARGET_PERCENTAGE |-> TARGET_PERCENTAGE]

InitWith(en) ==
  /\ config = DefaultConfig
  /\ SnakeConstructed
  /\ grid = InitialGrid
  /\ player_x = GRID_WIDTH \div 2
  /\ player_y = 0
  /\ enemies = en
  /\ trail = <<>>
  /\ drawing = FALSE
  /\ score = 0
  /\ game_over = FALSE
  /\ game_won = FALSE
  /\ message = MSG_NONE
  /\ phase = "move"
  /\ op = "start"
  /\ branch = "none"
  /\ dest = <<GRID_WIDTH \div 2, 0>>
  /\ bounced = {}
  /\ claim_pass = NoPass
  /\ para = ParaConstructed

\* run: initialize_display(); reset_game_state().
Init ==
  \E en \in [1 .. INITIAL_ENEMIES -> EnemyDraws] : InitWith(en)

\* What a step of the run loop leaves: the fields s of the game, the
\* position in the tick and the record of the operation that ran.
After(s, ph, o, b, d, bo) ==
  [grid |-> s.grid, player_x |-> s.player_x, player_y |-> s.player_y,
   enemies |-> s.enemies, trail |-> s.trail, drawing |-> s.drawing,
   score |-> s.score, game_over |-> s.game_over, game_won |-> s.game_won,
   message |-> s.message,
   phase |-> ph, op |-> o, branch |-> b, dest |-> d, bounced |-> bo]

\* The state becomes what the step t leaves.
Take(t) ==
  /\ Install(t)
  /\ phase' = t.phase
  /\ op' = t.op
  /\ branch' = t.branch
  /\ dest' = t.dest
  /\ bounced' = t.bounced
  /\ UNCHANGED <<config, snake_game, claim_pass, para>>

\* handle_input: SPACE on a finished session calls reset_game_state.
ResetStep(en) ==
  After(reset_game_state(en), "move", "reset", "none",
        <<GRID_WIDTH \div 2, 0>>, {})

\* run: keys = get_pressed(); handle_movement(keys).
MoveStep(keys) ==
  After(handle_movement(Game, keys), "enemies", "move", MoveKind(Game, keys),
        IF Terminal(Game) THEN <<player_x, player_y>> ELSE Target(Game, keys),
        bounced)

\* run: if not game_over and not game_won: update_enemies().
EnemyStep ==
  After(update_enemies(Game), "move", "enemies", StepKind(Game),
        <<player_x, player_y>>, Reversed(Game))

\* run: the enemy step is skipped once the session is over.
SkipStep ==
  After(Game, "move", "skip", "none", <<player_x, player_y>>, {})

\* The steps the run loop can take from the current state.
Steps ==
  IF phase = "move"
  THEN {MoveStep(keys) : keys \in KeyStates}
         \cup (IF game_over \/ game_won
               THEN {ResetStep(en) : en \in [1 .. INITIAL_ENEMIES -> EnemyDraws]}
               ELSE {})
  ELSE IF phase = "enemies"
  THEN (IF game_over \/ game_won THEN {SkipStep} ELSE {EnemyStep})
  ELSE {}

ResetWith(en) ==
  /\ phase = "move"
  /\ game_over \/ game_won
  /\ Take(ResetStep(en))

\* handle_input: SPACE restarts a finished session, before the tick's move.
Reset ==
  \E en \in [1 .. INITIAL_ENEMIES -> EnemyDraws] : ResetWith(en)

\* run: keys = get_pressed(); handle_movement(keys).
HandleMovement ==
  /\ phase = "move"
  /\ \E keys \in KeyStates : Take(MoveStep(keys))

\* run: if not game_over and not game_won: update_enemies().
UpdateEnemies ==
  /\ phase = "enemies"
  /\ ~(game_over \/ game_won)
  /\ Take(EnemyStep)

\* run: the enemy step is skipped once the session is over.
SkipEnemies ==
  /\ phase = "enemies"
  /\ game_over \/ game_won
  /\ Take(SkipStep)

Next ==
  \/ Reset
  \/ HandleMovement
  \/ UpdateEnemies
  \/ SkipEnemies

Spec == Init /\ [][Next]_vars

\* The session of the unit tests that remove the enemies after the reset
\* (reset_game_state(); enemies = []): the same run loop with no enemy.
InitNoEnemies ==
  InitWith(<<>>)

ResetNoEnemies ==
  ResetWith(<<>>)

NextNoEnemies ==
  \/ ResetNoEnemies
  \/ HandleMovement
  \/ UpdateEnemies
  \/ SkipEnemies

SpecNoEnemies == InitNoEnemies /\ [][NextNoEnemies]_vars

(* ------------------------------------------------------------------ *)
(* The run loop of SnakeGame                                           *)
(* ------------------------------------------------------------------ *)

\* XonixGame.__init__: the fields of a XonixGame no session has run on.
XonixConstructed ==
  /\ grid = <<>>
  /\ player_x = 0
  /\ player_y = 0
  /\ enemies = <<>>
  /\ trail = <<>>
  /\ drawing = FALSE
  /\ score = 0
  /\ game_over = FALSE
  /\ game_won = FALSE
  /\ message = ""
  /\ config = DefaultConfig

InstallSnake(s) ==
  /\ snake' = s.snake
  /\ direction' = s.direction
  /\ next_direction' = s.next_direction
  /\ food' = s.food
  /\ snake_score' = s.score
  /\ speed' = s.speed
  /\ snake_over' = s.game_over

\* run() up to the loop: reset_game_state on a fresh SnakeGame.
InitSnake ==
  /\ XonixConstructed
  /\ \E f \in spawn_food(snake_reset_game_state(<<>>)) :
       LET s == snake_reset_game_state(f)
       IN  /\ snake = s.snake
           /\ direction = s.direction
           /\ next_direction = s.next_direction
           /\ food = s.food
           /\ snake_score = s.score
           /\ speed = s.speed
           /\ snake_over = s.game_over
  /\ phase = "running"
  /\ op = "reset"
  /\ branch = "none"
  /\ dest = <<0, 0>>
  /\ bounced = {}
  /\ claim_pass = NoPass
  /\ para = ParaConstructed

\* handle_input on one KEYDOWN event of the loop's event batch.  After
\* ESCAPE the rest of the batch is still handled and the tick completed.
SnakeKey ==
  /\ phase \in {"running", "quitting"}
  /\ \E key \in SnakeKeys :
       IF key = "ESCAPE"
       THEN /\ phase' = "quitting"
            /\ branch' = "escape"
            /\ UNCHANGED snake_game
       ELSE IF ~snake_over
       THEN /\ InstallSnake(_handle_direction_input(Snake, key))
            /\ branch' = IF key \notin Arrows THEN "other"
                         ELSE IF direction = direction_map[key][2]
                              THEN "ignored" ELSE "turned"
            /\ UNCHANGED phase
       ELSE IF key = "SPACE"
       THEN /\ \E f \in spawn_food(snake_reset_game_state(<<>>)) :
                 InstallSnake(snake_reset_game_state(f))
            /\ branch' = "restart"
            /\ UNCHANGED phase
       ELSE /\ branch' = "other"
            /\ UNCHANGED <<snake_game, phase>>
  /\ op' = "key"
  /\ UNCHANGED <<game, config, dest, bounced, claim_pass, para>>

\* update_game_state of one tick; the loop ends after the tick in which
\* ESCAPE was pressed, and never comes back from a spawn_food that finds
\* the board covered.
SnakeUpdate ==
  /\ phase \in {"running", "quitting"}
  /\ LET free == spawn_food(UpdateUpToSpawn(Snake))
     IN  IF UpdateBranch(Snake) = "ate" /\ free = {}
         THEN /\ InstallSnake(UpdateUpToSpawn(Snake))
              /\ phase' = "hung"
         ELSE /\ \E f \in (IF UpdateBranch(Snake) = "ate"
                           THEN free ELSE {food}) :
                   InstallSnake(update_game_state(Snake, f))
              /\ phase' = IF phase = "quitting" THEN "stopped" ELSE phase
  /\ op' = "update"
  /\ branch' = UpdateBranch(Snake)
  /\ UNCHANGED <<game, config, dest, bounced, claim_pass, para>>

NextSnake ==
  \/ SnakeKey
  \/ SnakeUpdate

SpecSnake == InitSnake /\ [][NextSnake]_vars

(* ------------------------------------------------------------------ *)
(* ParatrooperGame.run                                                 *)
(* ------------------------------------------------------------------ *)

\* run() up to the loop: reset_game_state on a fresh ParatrooperGame.
InitPara ==
  /\ XonixConstructed
  /\ SnakeConstructed
  /\ para = para_reset_game_state(ParaConstructed)
  /\ phase = "para"
  /\ op = "reset"
  /\ branch = "none"
  /\ dest = <<0, 0>>
  /\ bounced = {}
  /\ claim_pass = NoPass

\* One iteration of the loop of run: the event, then, unless the game is
\* over or paused, the updates of the tick.
ParaTick ==
  /\ phase = "para"
  /\ \E event \in ParaEvents :
       LET s1 == para_handle_input(para, event)
       IN  IF ~s1.game_over /\ ~s1.paused
           THEN \E d \in {-1, 1}, y \in HeliAltitudes, timer \in FirstDropDelays,
                   spawn_delay \in SpawnDelays, drop_delay \in NextDropDelays,
                   fates \in [1 .. Len(s1.bullets) -> BulletFates] :
                  /\ para' = para_update_all(s1, d, y, timer, spawn_delay,
                                             drop_delay, fates)
                  /\ op' = "update"
                  /\ branch' = event
           ELSE /\ para' = s1
                /\ op' = "idle"
                /\ branch' = event
  /\ UNCHANGED <<game, config, snake_game, phase, dest, bounced, claim_pass>>

NextPara == ParaTick

SpecPara == InitPara /\ [][NextPara]_vars

\* The loop of run goes on for as long as the window is open.
FairSpecPara == SpecPara /\ WF_vars(ParaTick)

(* ------------------------------------------------------------------ *)
(* reset_game_state under other class attributes                       *)
(* ------------------------------------------------------------------ *)

\* The configurations explored: boards of 0 .. MaxConfigSize cells a side
\* and win thresholds below, in, at the ends of and above (0, 100].
MaxConfigSize == 3

Thresholds == {-1, 0, 1, TARGET_PERCENTAGE, 100, 101}

Configs ==
  [GRID_WIDTH : 0 .. MaxConfigSize, GRID_HEIGHT : 0 .. MaxConfigSize,
   TARGET_PERCENTAGE : Thresholds]

CellsOf(cfg) == (0 .. cfg.GRID_WIDTH - 1) \X (0 .. cfg.GRID_HEIGHT - 1)

\* The grid the two border loops leave when they run to their end.  (Rows
\* of no cells hold no cell: the grid of a board with no column or no row
\* is the function of no cell.)
BorderedGrid(cfg) ==
  [c \in CellsOf(cfg) |->
     IF \/ c[2] \in {0, cfg.GRID_HEIGHT - 1}
        \/ c[1] \in {0, cfg.GRID_WIDTH - 1}
     THEN BORDER ELSE EMPTY]

\* The enemies reset_game_state can draw under cfg.
EnemyStartsOf(cfg) ==
  [x  : {GRID_SIZE * k :
           k \in (cfg.GRID_WIDTH \div 4) .. ((3 * cfg.GRID_WIDTH) \div 4)},
   y  : {GRID_SIZE * k :
           k \in (cfg.GRID_HEIGHT \div 4) .. ((3 * cfg.GRID_HEIGHT) \div 4)},
   vx : {-SPEED, SPEED},
   vy : {-SPEED, SPEED}]

\* The first border loop indexes row 0 of a grid with columns and no row;
\* the second indexes column 0 of rows with no column.
BorderLoopRaises(cfg) ==
  \/ cfg.GRID_WIDTH > 0 /\ cfg.GRID_HEIGHT = 0
  \/ cfg.GRID_HEIGHT > 0 /\ cfg.GRID_WIDTH = 0

\* reset_game_state with the class attributes cfg on the game s, en being
\* the enemies drawn: the exception raised, if any, and the fields as the
\* call leaves them. No line of it reads TARGET_PERCENTAGE.
reset_game_state_under(cfg, s, en) ==
  IF BorderLoopRaises(cfg)
  THEN [raised |-> "IndexError",
        game |-> [s EXCEPT !.grid = BorderedGrid(cfg)]]
  ELSE [raised |-> "none",
        game |-> [grid |-> BorderedGrid(cfg),
                  player_x |-> cfg.GRID_WIDTH \div 2,
                  player_y |-> 0,
                  enemies |-> en,
                  trail |-> <<>>,
                  drawing |-> FALSE,
                  score |-> 0,
                  game_over |-> FALSE,
                  game_won |-> FALSE,
                  message |-> MSG_NONE]]

\* calculate_percentage with the class attributes cfg, as the numerator
\* over total and the total the code divides by.
calculate_percentage_under(cfg, g) ==
  LET total == (cfg.GRID_WIDTH - 2) * (cfg.GRID_HEIGHT - 2)
      claimed == Cardinality(
        {c \in (1 .. cfg.GRID_WIDTH - 2) \X (1 .. cfg.GRID_HEIGHT - 2) :
           g[c] \in {CLAIMED, BORDER}})
  IN  [total |-> total,
       percentage |-> IF total > 0 THEN 100 * claimed ELSE 0]

\* A XonixGame as constructed, with the class attributes set to a
\* configuration of Configs.
InitConfig ==
  /\ config \in Configs
  /\ grid = <<>>
  /\ player_x = 0
  /\ player_y = 0
  /\ enemies = <<>>
  /\ trail = <<>>
  /\ drawing = FALSE
  /\ score = 0
  /\ game_over = FALSE
  /\ game_won = FALSE
  /\ message = MSG_NONE
  /\ SnakeConstructed
  /\ phase = "constructed"
  /\ op = "start"
  /\ branch = "none"
  /\ dest = <<0, 0>>
  /\ bounced = {}
  /\ claim_pass = NoPass
  /\ para = ParaConstructed

\* reset_game_state is called, by run or by SPACE; an exception it raises
\* leaves run and ends the program.
ResetConfigured ==
  /\ phase # "crashed"
  /\ \E en \in [1 .. INITIAL_ENEMIES -> EnemyStartsOf(config)] :
       LET r == reset_game_state_under(config, Game, en)
       IN  /\ Install(r.game)
           /\ branch' = IF r.raised = "none" THEN "built" ELSE r.raised
           /\ phase' = IF r.raised = "none" THEN "move" ELSE "crashed"
  /\ op' = "reset"
  /\ dest' = <<config.GRID_WIDTH \div 2, 0>>
  /\ UNCHANGED <<config, snake_game, bounced, claim_pass, para>>

NextConfig == ResetConfigured

SpecConfig == InitConfig /\ [][NextConfig]_vars

(* ------------------------------------------------------------------ *)
(* One call of claim_territory, statement by statement                 *)
(* ------------------------------------------------------------------ *)

\* The grids the call is made on: the ring Border, every interior cell
\* Empty or Claimed.
PassGrids ==
  {[c \in Cells |-> IF c \in Ring THEN BORDER ELSE f[c]] :
     f \in [Interior -> {EMPTY, CLAIMED}]}

\* The trails it is made with: a trail drawn straight down from the top
\* border, of one cell or down to the bottom border.
PassTrails ==
  {[k \in 1 .. n |-> <<x, k>>] :
     x \in 1 .. (GRID_WIDTH - 2), n \in {1, GRID_HEIGHT - 2}}

\* The enemies: anywhere reset_game_state can put them.
PassEnemies ==
  [1 .. INITIAL_ENEMIES -> {e \in EnemyStarts : e.vx = SPEED /\ e.vy = SPEED}]

\* claim_territory has been called by the closure branch of
\* _process_movement: the trail is on Empty cells, the enemies are on
\* Empty cells off the trail, no statement of the call has run.
InitFlood ==
  /\ grid \in PassGrids
  /\ trail \in PassTrails
  /\ \A c \in Range(trail) : grid[c] = EMPTY
  /\ enemies \in PassEnemies
  /\ \A i \in DOMAIN enemies :
       /\ grid[Quantized(enemies[i])] = EMPTY
       /\ Quantized(enemies[i]) \notin Range(trail)
  /\ player_x = trail[Len(trail)][1]
  /\ player_y = trail[Len(trail)][2]
  /\ drawing = FALSE
  /\ score = 0
  /\ game_over = FALSE
  /\ game_won = FALSE
  /\ message = MSG_NONE
  /\ config = DefaultConfig
  /\ SnakeConstructed
  /\ para = ParaConstructed
  /\ claim_pass = [pc |-> "mark", g0 |-> grid, i |-> 1, stack |-> <<>>,
                   visited |-> {}, area |-> <<>>, pops |-> 0]
  /\ phase = "move"
  /\ op = "call"
  /\ branch = "none"
  /\ dest = <<0, 0>>
  /\ bounced = {}

PassFrame ==
  UNCHANGED <<player_x, player_y, enemies, trail, drawing, score, game_over,
              game_won, message, phase, dest, bounced, para, config,
              snake_game>>

\* for x, y in self.trail: self.grid[y][x] = self.BORDER
PassMarkTrail ==
  /\ claim_pass.pc = "mark"
  /\ grid' = MarkTrail(grid, trail)
  /\ claim_pass' = [claim_pass EXCEPT !.pc = "scan"]
  /\ op' = "mark"
  /\ branch' = "none"
  /\ PassFrame

\* One iteration of the scan loops up to its call of flood_fill, or the
\* end of the loops.
PassScan ==
  /\ claim_pass.pc = "scan"
  /\ IF claim_pass.i > Total
     THEN /\ claim_pass' = [claim_pass EXCEPT !.pc = "done"]
          /\ branch' = "end"
     ELSE IF grid[ScanOrder[claim_pass.i]] = EMPTY
          THEN /\ claim_pass' = [claim_pass EXCEPT
                                   !.pc = "fill",
                                   !.stack = <<ScanOrder[claim_pass.i]>>,
                                   !.visited = {},
                                   !.area = <<>>,
                                   !.pops = 0]
               /\ branch' = "call"
          ELSE /\ claim_pass' = [claim_pass EXCEPT !.i = @ + 1]
               /\ branch' = "skip"
  /\ op' = "scan"
  /\ UNCHANGED grid
  /\ PassFrame

\* The end of a flood fill that leaves the scan on the cell it started
\* from when the region holds an enemy.
PassFillEnd_Rescans ==
  /\ claim_pass.pc = "fill"
  /\ claim_pass.stack = <<>>
  /\ LET has_enemy == \E i \in DOMAIN enemies :
                        Quantized(enemies[i]) \in claim_pass.visited
     IN  /\ grid' = IF claim_pass.area # <<>> /\ ~has_enemy
                    THEN [c \in Cells |-> IF c \in Range(claim_pass.area)
                                          THEN CLAIMED ELSE grid[c]]
                    ELSE grid
         /\ claim_pass' = [claim_pass EXCEPT
                             !.pc = "scan",
                             !.i = IF has_enemy THEN @ ELSE @ + 1]
         /\ branch' = IF has_enemy THEN "enemy" ELSE "claimed"
  /\ op' = "filled"
  /\ PassFrame

\* One iteration of flood_fill's while loop: pop; drop the cell
\* (continue) or collect it and push its four neighbours.
PassPop ==
  /\ claim_pass.pc = "fill"
  /\ claim_pass.stack # <<>>
  /\ LET n == Len(claim_pass.stack)
         c == claim_pass.stack[n]
         rest == SubSeq(claim_pass.stack, 1, n - 1)
     IN  IF c \in claim_pass.visited \/ ~InGrid(c) \/ grid[c] # EMPTY
         THEN /\ claim_pass' = [claim_pass EXCEPT !.stack = rest,
                                                  !.pops = @ + 1]
              /\ branch' = "continue"
         ELSE /\ claim_pass' = [claim_pass EXCEPT
                                  !.stack = rest \o
                                    << <<c[1], c[2] + 1>>, <<c[1], c[2] - 1>>,
                                       <<c[1] + 1, c[2]>>, <<c[1] - 1, c[2]>> >>,
                                  !.visited = @ \cup {c},
                                  !.area = Append(@, c),
                                  !.pops = @ + 1]
              /\ branch' = "collect"
  /\ op' = "pop"
  /\ UNCHANGED grid
  /\ PassFrame

\* flood_fill returns (has_enemy computed) and the scan's body claims the
\* area or leaves it; the scan moves to the next cell.
PassFillEnd ==
  /\ claim_pass.pc = "fill"
  /\ claim_pass.stack = <<>>
  /\ LET has_enemy == \E i \in DOMAIN enemies :
                        Quantized(enemies[i]) \in claim_pass.visited
     IN  /\ grid' = IF claim_pass.area # <<>> /\ ~has_enemy
                    THEN [c \in Cells |-> IF c \in Range(claim_pass.area)
                                          THEN CLAIMED ELSE grid[c]]
                    ELSE grid
         /\ claim_pass' = [claim_pass EXCEPT !.pc = "scan", !.i = @ + 1]
         /\ branch' = IF has_enemy THEN "enemy" ELSE "claimed"
  /\ op' = "filled"
  /\ PassFrame

NextFlood ==
  \/ PassMarkTrail
  \/ PassScan
  \/ PassPop
  \/ PassFillEnd

SpecFlood == InitFlood /\ [][NextFlood]_vars

\* The interpreter runs the next statement of the call: nothing suspends
\* it (the engine is single-threaded and claim_territory awaits nothing).
FairSpecFlood == SpecFlood /\ WF_vars(NextFlood)

(* ------------------------------------------------------------------ *)
(* Reference notions the properties are stated in                      *)
(* ------------------------------------------------------------------ *)

Adjacent(c, d) ==
  \/ c[1] = d[1] /\ (c[2] = d[2] + 1 \/ d[2] = c[2] + 1)
  \/ c[2] = d[2] /\ (c[1] = d[1] + 1 \/ d[1] = c[1] + 1)

RECURSIVE Grow(_, _)
Grow(g, S) ==
  LET N == S \cup {d \in Cells : g[d] = EMPTY /\ \E c \in S : Adjacent(c, d)}
  IN  IF N = S THEN S ELSE Grow(g, N)

\* The maximal 4-connected set of Empty cells of g that holds c.
EmptyRegion(g, c) ==
  IF InGrid(c) /\ g[c] = EMPTY THEN Grow(g, {c}) ELSE {}

\* The grid as the data model of the specification sees it: the cells of
\* the active trail are Trail, not Empty.
TrailView(g, tr) ==
  [c \in Cells |-> IF c \in Range(tr) THEN TRAIL ELSE g[c]]

EnemyIn(en, S) ==
  \E i \in DOMAIN en : Quantized(en[i]) \in S

\* This step is a move that closed the trail.
Closes == op' = "move" /\ branch' = "close"

\* The step t is a move that closed the trail.
ClosesBy(t) == t.op = "move" /\ t.branch = "close"

\* The fields of the game as the step t leaves them.
GameOf(t) == [f \in DOMAIN Game |-> t[f]]

(* ------------------------------------------------------------------ *)
(* Properties                                                          *)
(* ------------------------------------------------------------------ *)

\* C1: after claim_territory has run on a trail closure, no enemy-free
\* region of Empty interior cells survives: every cell that was Empty, off
\* the trail and in a region without an enemy's quantized position is
\* Claimed, and every cell still Empty lies in a region that holds an enemy.
C1_EnemyFreeRegionsClaimed ==
  (\A t \in Steps :
     ClosesBy(t) =>
       /\ \A c \in Interior :
            (TrailView(grid, trail)[c] = EMPTY
               /\ ~EnemyIn(enemies, EmptyRegion(TrailView(grid, trail), c)))
            => t.grid[c] = CLAIMED
       /\ \A c \in Interior :
            t.grid[c] = EMPTY => EnemyIn(t.enemies, EmptyRegion(t.grid, c)))

\* A closure has just claimed a region and left another, with an enemy, Empty.
C1_Witness ==
  /\ op = "move" /\ branch = "close"
  /\ \E c \in Interior : grid[c] = CLAIMED
  /\ \E c \in Interior : grid[c] = EMPTY

\* C2: a closure never claims a region that holds an enemy: for every
\* enemy whose quantized cell is Empty (and off the trail) when
\* claim_territory runs, that cell and every Empty cell 4-connected to it
\* are still Empty when it returns.
C2_EnemyRegionStaysEmpty ==
  (\A t \in Steps :
     ClosesBy(t) =>
       \A i \in DOMAIN enemies :
         \A d \in EmptyRegion(TrailView(grid, trail), Quantized(enemies[i])) :
           t.grid[d] = EMPTY)

\* A closure has just run with an enemy in an Empty region of two or more
\* cells, and claimed some other region.
C2_Witness ==
  /\ op = "move" /\ branch = "close"
  /\ \E i \in DOMAIN enemies :
       Cardinality(EmptyRegion(grid, Quantized(enemies[i]))) >= 2
  /\ \E c \in Interior : grid[c] = CLAIMED

\* This step is handle_movement passing the cell dest' to _process_movement.
Asked ==
  /\ op' = "move"
  /\ ~Terminal(Game)
  /\ dest' # <<player_x, player_y>>
  /\ InGrid(dest')

\* The step t is handle_movement passing the cell t.dest to
\* _process_movement.
AskedBy(t) ==
  /\ t.op = "move"
  /\ ~Terminal(Game)
  /\ t.dest # <<player_x, player_y>>
  /\ InGrid(t.dest)

\* The loop's outside, read as in the specification's example (a small
\* block cut from the open field): the largest Empty region the trail
\* leaves, when one region is larger than every other.
OutsideLoop(g, tr) ==
  LET v == TrailView(g, tr)
      regions == {EmptyRegion(v, c) : c \in {c \in Interior : v[c] = EMPTY}}
  IN  UNION {R \in regions :
               \A Q \in regions : Q # R => Cardinality(Q) < Cardinality(R)}

\* C3, as stated: closing a trail loop with zero enemies claims the cells
\* the loop encloses and no others: the Empty cells outside the loop stay
\* Empty.
C3_OutsideStaysEmpty ==
  [][(Closes /\ enemies = <<>>) =>
       \A c \in OutsideLoop(grid, trail) : grid'[c] = EMPTY]_vars

\* C3, amended: closing a trail loop with zero enemies claims every Empty
\* interior cell, outside the loop as well as inside it: each trail cell
\* becomes Border, every other Empty cell becomes Claimed, and no other
\* cell changes.
C3_ZeroEnemiesClaimsAll ==
  (\A t \in Steps :
     (ClosesBy(t) /\ enemies = <<>>) =>
       \A c \in Cells :
         t.grid[c] = IF c \in Range(trail) THEN BORDER
                    ELSE IF grid[c] = EMPTY THEN CLAIMED
                    ELSE grid[c])

\* A closure with no enemy has just run: cells were claimed, none is Empty.
C3_Witness ==
  /\ op = "move" /\ branch = "close" /\ enemies = <<>>
  /\ \E c \in Interior : grid[c] = CLAIMED
  /\ \E c \in Interior : grid[c] = BORDER
  /\ \A c \in Interior : grid[c] # EMPTY

\* C4: from Drawing, a move whose destination is Border or Claimed is a
\* closure: afterwards drawing is false, the trail is empty, the player is
\* at the destination, the grid is the result of claim_territory on the
\* pre-move grid, trail and enemies (so every trail cell is Border), and
\* the score is the percentage recomputed from the resulting grid.
C4_ClosureEffect ==
  (\A t \in Steps :
     (AskedBy(t) /\ drawing /\ is_on_border_or_claimed(grid, t.dest[1], t.dest[2])) =>
       /\ ~t.drawing
       /\ t.trail = <<>>
       /\ <<t.player_x, t.player_y>> = t.dest
       /\ t.grid = claim_territory(grid, trail, enemies)
       /\ \A c \in Range(trail) : t.grid[c] = BORDER
       /\ t.score = calculate_percentage(t.grid))

\* A closing move has just run, raised the score, and did not end the session.
C4_Witness ==
  /\ op = "move" /\ branch = "close"
  /\ ~drawing /\ trail = <<>> /\ <<player_x, player_y>> = dest
  /\ score > 0 /\ ~game_won

\* C5: claim-then-check-win: a closing move makes the session Won exactly
\* when the percentage of the grid after that move's claim reaches
\* TARGET_PERCENTAGE, the cells claimed by the move being in the grid; and
\* in every state game_won holds iff calculate_percentage() >=
\* TARGET_PERCENTAGE.
C5_ClaimThenCheckWin ==
  /\ (game_won <=> calculate_percentage(grid) >= TARGET_PERCENTAGE * Total)
  /\ (\A t \in Steps :
        ClosesBy(t) =>
          /\ t.grid = claim_territory(grid, trail, enemies)
          /\ t.game_won <=>
               calculate_percentage(t.grid) >= TARGET_PERCENTAGE * Total)

\* A closing move has just won the session with cells it claimed itself:
\* the trail turned to Border alone would not have reached the target.
C5_Witness ==
  /\ op = "move" /\ branch = "close" /\ game_won
  /\ 100 * Cardinality({c \in Interior : grid[c] = BORDER})
       < TARGET_PERCENTAGE * Total

\* C6: from Drawing, a move whose destination is already in the trail makes
\* the session Lost with the self-intersection reason, and leaves the
\* player position, the trail and every grid cell unchanged.
C6_SelfHitEffect ==
  (\A t \in Steps :
     (AskedBy(t) /\ drawing /\ t.dest \in Range(trail)) =>
       /\ t.game_over
       /\ t.message = MSG_OWN_TRAIL
       /\ <<t.player_x, t.player_y, t.trail, t.grid>> = <<player_x, player_y, trail, grid>>)

\* The player has just run into a trail of two or more cells.
C6_Witness ==
  /\ op = "move" /\ branch = "selfhit"
  /\ game_over /\ message = MSG_OWN_TRAIL
  /\ dest \in Range(trail) /\ Len(trail) >= 2

\* C7: from Idle, a move onto an Empty cell switches to Drawing, sets the
\* trail to the one-element sequence of the destination, moves the player
\* there and changes no grid cell.
C7_StartDrawingEffect ==
  (\A t \in Steps :
     (AskedBy(t) /\ ~drawing /\ grid[t.dest] = EMPTY) =>
       /\ t.drawing
       /\ t.trail = <<t.dest>>
       /\ <<t.player_x, t.player_y>> = t.dest
       /\ t.grid = grid)

\* The player has just stepped off safe ground onto an Empty cell.
C7_Witness ==
  /\ op = "move" /\ branch = "start"
  /\ drawing /\ Len(trail) = 1 /\ grid[dest] = EMPTY

\* C8: from Drawing, a move onto an Empty cell that is not in the trail
\* appends the destination as the last trail element (the earlier elements
\* and their order unchanged), moves the player there, keeps Drawing and
\* changes no grid cell.
C8_ContinueDrawingEffect ==
  (\A t \in Steps :
     (AskedBy(t) /\ drawing /\ grid[t.dest] = EMPTY /\ t.dest \notin Range(trail)) =>
       /\ t.drawing
       /\ t.trail = Append(trail, t.dest)
       /\ <<t.player_x, t.player_y>> = t.dest
       /\ t.grid = grid)

\* The player has just extended a trail to three cells.
C8_Witness ==
  /\ op = "move" /\ branch = "continue"
  /\ drawing /\ Len(trail) = 3 /\ trail[3] = dest

\* C9: from Idle, a move onto a Border or Claimed cell only changes the
\* player position: trail, drawing flag, grid, score and session status
\* are unchanged.
C9_SafeMoveEffect ==
  (\A t \in Steps :
     (AskedBy(t) /\ ~drawing /\ is_on_border_or_claimed(grid, t.dest[1], t.dest[2])) =>
       /\ <<t.player_x, t.player_y>> = t.dest
       /\ <<t.trail, t.drawing, t.grid, t.enemies, t.score, t.game_over, t.game_won, t.message>> = <<trail, drawing, grid, enemies, score, game_over, game_won, message>>)

\* The player has just moved on safe ground onto a Claimed cell.
C9_Witness ==
  /\ op = "move" /\ branch = "safe"
  /\ grid[dest] = CLAIMED /\ <<player_x, player_y>> = dest

\* C10: Lost and Won are absorbing until reset: from a state with game_over
\* or game_won, every step of a tick (handle_movement with any keys, the
\* run loop's enemy step) leaves the player, trail, grid, enemies, score
\* and status unchanged, and only reset_game_state makes the session
\* Active and Idle again.
C10_TerminalAbsorbing ==
  (\A t \in Steps :
     Terminal(Game) =>
       IF t.op = "reset"
       THEN ~t.game_over /\ ~t.game_won /\ ~t.drawing /\ t.trail = <<>>
       ELSE GameOf(t) = Game)

\* handle_movement has just been called on a finished session.
C10_Witness ==
  /\ op = "move" /\ branch = "terminal"
  /\ game_over \/ game_won

\* C11: a move command whose destination is outside the board is rejected
\* by handle_movement with no change to any part of the game state, in Idle
\* as well as in Drawing: every step of the run loop that asks for such a
\* cell leaves the game unchanged, and handle_movement is the identity on
\* the current state, with the drawing flag either way, for every key
\* state that points off the board.
C11_OutOfBoardRejected ==
  /\ (\A t \in Steps :
        (t.op = "move" /\ ~Terminal(Game) /\ ~InGrid(t.dest)) =>
          GameOf(t) = Game)
  /\ (\A keys \in KeyStates : \A d \in BOOLEAN :
          LET s == [Game EXCEPT !.drawing = d]
          IN  (~Terminal(s) /\ Moved(keys) /\ ~InGrid(Target(s, keys)))
                => handle_movement(s, keys) = s)

\* The player, on the left column of the ring, has just asked for the cell
\* to its left.
C11_Witness ==
  /\ op = "move" /\ branch = "rejected"
  /\ player_x = 0 /\ dest = <<-1, player_y>>
  /\ ~game_over /\ ~game_won

\* C12: in every reachable state calculate_percentage() is within
\* [0, 100], and within one session (until the next reset) no step lowers
\* it: after each closure it is at least what it was before.
C12_PercentageBoundedMonotone ==
  /\ 0 <= calculate_percentage(grid)
  /\ calculate_percentage(grid) <= 100 * Total
  /\ (\A t \in Steps :
        t.op # "reset" =>
          calculate_percentage(t.grid) >= calculate_percentage(grid))

\* A second closure of the session has just run: the interior's taken
\* cells are two Border cells that do not touch, and one trail is a
\* connected path.
C12_Witness ==
  /\ op = "move" /\ branch = "close"
  /\ \E c, d \in Interior :
       /\ c # d /\ ~Adjacent(c, d)
       /\ {e \in Interior : grid[e] # EMPTY} = {c, d}
       /\ grid[c] = BORDER /\ grid[d] = BORDER
  /\ score = 200 /\ ~game_won

\* C13: the stored score never drifts from the grid: in every state
\* reachable through reset_game_state, handle_movement and update_enemies
\* the score equals calculate_percentage() of the current grid.
C13_ScoreIsPercentage ==
  score = calculate_percentage(grid)

\* The enemies have just stepped in a session that goes on after a closure
\* that took cells: the score is above zero and is the grid's percentage.
C13_Witness ==
  /\ op = "enemies" /\ ~game_over /\ ~game_won
  /\ score > 0 /\ score = calculate_percentage(grid)
  /\ \E c \in Interior : grid[c] = CLAIMED

\* C14: in every reachable state the player's cell is Border, Claimed or
\* a member of the current trail: the player never stands on an Empty cell
\* that is not in the trail.
C14_PlayerOnSafeOrTrail ==
  \/ grid[<<player_x, player_y>>] \in {BORDER, CLAIMED}
  \/ <<player_x, player_y>> \in Range(trail)

\* The player stands on an Empty cell at the end of a trail of two cells,
\* after the enemies have stepped.
C14_Witness ==
  /\ op = "enemies" /\ drawing /\ ~game_over
  /\ grid[<<player_x, player_y>>] = EMPTY
  /\ Len(trail) = 2 /\ trail[2] = <<player_x, player_y>>

\* C15: in every reachable state the trail holds no coordinate twice: a
\* move onto a cell already in the trail is never appended, it ends the
\* game instead.
C15_TrailNoDuplicates ==
  /\ (\A i, j \in DOMAIN trail : trail[i] = trail[j] => i = j)
  /\ (\A t \in Steps :
        (AskedBy(t) /\ drawing /\ t.dest \in Range(trail)) =>
          (t.trail = trail /\ t.game_over))

\* The player has just turned back onto a trail of three cells, which is
\* left as it was.
C15_Witness ==
  /\ op = "move" /\ branch = "selfhit" /\ game_over
  /\ Len(trail) = 3 /\ dest = trail[2]
  /\ Cardinality(Range(trail)) = 3

\* C16: in every reachable state the grid has its GRID_WIDTH x GRID_HEIGHT
\* cells and every cell of the outer ring is Border; no move, closure or
\* enemy step changes an outer-ring cell.
C16_RingAlwaysBorder ==
  /\ (DOMAIN grid = Cells /\ \A c \in Ring : grid[c] = BORDER)
  /\ (\A t \in Steps :
        \A c \in Ring : t.grid[c] = grid[c])

\* A closure that ended on the ring has just run and taken interior cells;
\* the ring is Border all around.
C16_Witness ==
  /\ op = "move" /\ branch = "close"
  /\ <<player_x, player_y>> \in Ring
  /\ \E c \in Interior : grid[c] = CLAIMED
  /\ \A c \in Ring : grid[c] = BORDER

\* The enemy e lies within the combined threshold (radius plus half a
\* cell) of the pixel coordinate of the cell c.
WithinReach(e, c) ==
  DistSq(e, c) <= HitRadiusSq

\* C17: while Drawing, if after the enemies' step an enemy lies within
\* radius plus half a cell of the pixel coordinate of a trail cell or of
\* the player's cell, update_enemies ends with the session Lost.
C17_EnemyHitLoses ==
  (\A t \in Steps :
     (t.op = "enemies" /\ drawing
        /\ \E i \in DOMAIN t.enemies :
             \E c \in Range(trail) \cup {<<player_x, player_y>>} :
               WithinReach(t.enemies[i], c)) =>
       t.game_over)

\* The enemies have just stepped and one has ended the session on a trail
\* cell behind the player, out of reach of the player's own cell.
C17_Witness ==
  /\ op = "enemies" /\ drawing /\ game_over
  /\ Len(trail) >= 2
  /\ \E i \in DOMAIN enemies :
       /\ WithinReach(enemies[i], trail[1])
       /\ ~WithinReach(enemies[i], <<player_x, player_y>>)

\* The enemies of en that are within reach of a trail cell or of the
\* player's cell.
Hitters(en) ==
  {i \in DOMAIN en :
     \E c \in Range(trail) \cup {<<player_x, player_y>>} : WithinReach(en[i], c)}

\* The first of them in the order of the enemy list: the one whose step
\* made the session Lost.
FirstHitter(en) ==
  CHOOSE i \in Hitters(en) : \A j \in Hitters(en) : i <= j

\* C18, as stated: the terminal reason tells the two enemy collisions
\* apart: while Drawing, the enemy that ends the session leaves the
\* player-destroyed reason when it hits the player's current cell and the
\* trail-destroyed reason when it hits another trail cell, and that reason
\* is the one the tick ends with.
C18_ReasonDistinguishesCollisions ==
  [][(op' = "enemies" /\ drawing /\ Hitters(enemies') # {}) =>
       /\ game_over'
       /\ message' = IF WithinReach(enemies'[FirstHitter(enemies')],
                                    <<player_x, player_y>>)
                     THEN MSG_ENEMY_PLAYER
                     ELSE MSG_ENEMY_TRAIL]_vars

\* C18, what the program does: while Drawing the player's cell is the last
\* cell of the trail, so an enemy within reach of the player is within
\* reach of the trail, the trail test comes first and leaves the loop: every
\* enemy collision ends the session with the trail-destroyed reason, and
\* the player-destroyed reason is never recorded.
C18_AlwaysTrailReason ==
  /\ [](message # MSG_ENEMY_PLAYER)
  /\ []((drawing /\ trail # <<>>) => trail[Len(trail)] = <<player_x, player_y>>)
  /\ [][(op' = "enemies" /\ drawing /\ Hitters(enemies') # {}) =>
          (game_over' /\ message' = MSG_ENEMY_TRAIL)]_vars

\* An enemy has just ended the session within reach of the player's own
\* cell and of no other trail cell, and the reason left is the
\* trail-destroyed one.
C18_Witness ==
  /\ op = "enemies" /\ drawing /\ game_over
  /\ message = MSG_ENEMY_TRAIL
  /\ Len(trail) >= 2
  /\ \E i \in DOMAIN enemies :
       /\ WithinReach(enemies[i], <<player_x, player_y>>)
       /\ \A c \in Range(trail) \ {<<player_x, player_y>>} :
            ~WithinReach(enemies[i], c)

\* C19: no enemy collision ends the game while Idle: when drawing is false
\* as update_enemies starts, game_over and message are unchanged when it
\* returns, wherever the enemies and the player are (and so are the other
\* fields that are not the enemies).
C19_IdleIsSafe ==
  (\A t \in Steps :
     (t.op = "enemies" /\ ~drawing) =>
       <<t.game_over, t.message, t.game_won, t.drawing, t.trail, t.grid, t.score, t.player_x, t.player_y>> = <<game_over, message, game_won, drawing, trail, grid, score, player_x, player_y>>)

\* The enemies have just stepped while the player, Idle, stands on a cell
\* within reach of one of them, and the session goes on.
C19_Witness ==
  /\ op = "enemies" /\ ~drawing /\ ~game_over /\ ~game_won
  /\ \E i \in DOMAIN enemies :
       DistSq(enemies[i], <<player_x, player_y>>) < HitRadiusSq

\* The state reset_game_state is to leave.
FreshSession ==
  /\ DOMAIN grid = Cells
  /\ \A c \in Ring : grid[c] = BORDER
  /\ \A c \in Interior : grid[c] = EMPTY
  /\ calculate_percentage(grid) = 0
  /\ trail = <<>>
  /\ ~drawing
  /\ <<player_x, player_y>> = <<GRID_WIDTH \div 2, 0>>
  /\ Len(enemies) = INITIAL_ENEMIES
  /\ \A i \in DOMAIN enemies :
       /\ Quantized(enemies[i]) \in Interior
       /\ grid[Quantized(enemies[i])] = EMPTY
  /\ score = 0
  /\ ~game_over
  /\ ~game_won

\* C20: reset_game_state, from any state, yields a grid whose outer ring is
\* Border and whose interior is all Empty (0% claimed), an empty trail,
\* drawing false, the player at (GRID_WIDTH // 2, 0), exactly
\* INITIAL_ENEMIES enemies each in an Empty interior cell, score 0 and
\* neither game_over nor game_won: so is the state run starts in, so is
\* the state after every reset, and every enemy the reset can draw lies in
\* an interior cell.
C20_ResetYieldsFreshSession ==
  /\ op \in {"start", "reset"} => FreshSession
  /\ \A e \in EnemyStarts : Quantized(e) \in Interior

\* A finished session has just been reset.
C20_Witness ==
  /\ op = "reset"
  /\ FreshSession
  /\ message = MSG_NONE

\* C21: the closure logic is idempotent: claim_territory run a second time
\* right after a closure, with an empty trail and the enemies where they
\* were, changes no grid cell; and on the fully claimed board (the
\* current one with every Empty cell Claimed) it claims nothing.
C21_ClaimIdempotent ==
  /\ (\A t \in Steps :
        ClosesBy(t) =>
          /\ t.enemies = enemies
          /\ claim_territory(t.grid, <<>>, t.enemies) = t.grid)
  /\ (LET full == [c \in Cells |->
                       IF grid[c] = EMPTY THEN CLAIMED ELSE grid[c]]
        IN  claim_territory(full, <<>>, enemies) = full)

\* A closure has just claimed a region and left another Empty around an
\* enemy; a second run would find that region and leave it again.
C21_Witness ==
  /\ op = "move" /\ branch = "close"
  /\ \E c \in Interior : grid[c] = CLAIMED
  /\ Cardinality({c \in Interior : grid[c] = EMPTY}) >= 2
  /\ claim_territory(grid, <<>>, enemies) = grid

\* C22: the session status is exactly one of Active, Won, Lost: in no
\* state reachable by ticks of the run loop are game_over and game_won
\* both true.
C22_NeverWonAndLost ==
  ~(game_over /\ game_won)

\* The session is Won, not Lost, and the run loop has just skipped the
\* enemy step with an enemy within reach of the player's cell.
C22_Witness ==
  /\ op = "skip" /\ game_won /\ ~game_over
  /\ \E i \in DOMAIN enemies :
       DistSq(enemies[i], <<player_x, player_y>>) < HitRadiusSq

\* C23: enemies only read the grid: update_enemies leaves every grid cell,
\* the trail, the player position and the score unchanged; it changes only
\* the enemies' positions and velocities and, while Drawing, game_over and
\* message.
C23_EnemiesOnlyRead ==
  (\A t \in Steps :
     t.op = "enemies" =>
       /\ <<t.grid, t.trail, t.player_x, t.player_y, t.score, t.drawing, t.game_won>> = <<grid, trail, player_x, player_y, score, drawing, game_won>>
       /\ Len(t.enemies) = Len(enemies)
       /\ ~drawing => <<t.game_over, t.message>> = <<game_over, message>>)

\* The enemies have just moved past a trail and a board with taken cells,
\* and an enemy has bounced: its velocity points up.
C23_Witness ==
  /\ op = "enemies" /\ drawing /\ ~game_over
  /\ trail # <<>> /\ score > 0
  /\ \E i \in DOMAIN enemies : enemies[i].vy = -SPEED

\* A configuration in the ranges the specification calls sane: a grid
\* with at least one column and one row, a win threshold in (0, 100].
SaneConfig(cfg) ==
  /\ cfg.GRID_WIDTH > 0 /\ cfg.GRID_HEIGHT > 0
  /\ cfg.TARGET_PERCENTAGE > 0 /\ cfg.TARGET_PERCENTAGE <= 100

\* The direction a 180-degree turn of d would take.
Opposite(d) == <<0 - d[1], 0 - d[2]>>

\* The coordinates one cell around the board and on it.
AroundBoard == (-1 .. GRID_WIDTH) \X (-1 .. GRID_HEIGHT)

\* C24: get_cell_state(x, y) is the stored cell for every coordinate on the
\* board and Border for every coordinate off it, and
\* is_on_border_or_claimed(x, y) is true exactly when that state is Border
\* or Claimed: on the board, when the stored cell is Border or Claimed; off
\* the board, always.
C24_CellStateTotal ==
  \A c \in AroundBoard :
    /\ c \in Cells => get_cell_state(grid, c[1], c[2]) = grid[c]
    /\ c \notin Cells => get_cell_state(grid, c[1], c[2]) = BORDER
    /\ is_on_border_or_claimed(grid, c[1], c[2])
         <=> (c \notin Cells \/ grid[c] = BORDER \/ grid[c] = CLAIMED)

\* The board holds cells of all three stored states, read back as stored,
\* and the player has just been handed the Border of the outside: a move
\* off the board was asked for.
C24_Witness ==
  /\ \E c \in Interior : grid[c] = CLAIMED /\ get_cell_state(grid, c[1], c[2]) = CLAIMED
  /\ \E c \in Interior : grid[c] = EMPTY /\ ~is_on_border_or_claimed(grid, c[1], c[2])
  /\ \E c \in Interior : grid[c] = BORDER /\ is_on_border_or_claimed(grid, c[1], c[2])
  /\ dest \notin Cells
  /\ get_cell_state(grid, dest[1], dest[2]) = BORDER

\* C25, as stated: the trail is cleared on terminal failure: whenever the
\* session is Lost, by self-intersection or by an enemy collision, the
\* trail is empty.
C25_LostTrailEmpty ==
  game_over => trail = <<>>

\* C25, amended: the trail is kept on terminal failure: the step that makes
\* the session Lost, by self-intersection or by an enemy collision, leaves
\* the trail as it was; whenever the session is Lost the trail is not
\* empty and drawing is still true; and the trail stays as it is until
\* reset_game_state empties it.
C25_LostTrailKept ==
  /\ (game_over => (trail # <<>> /\ drawing))
  /\ (\A t \in Steps :
        (t.game_over /\ ~game_over) => t.trail = trail)
  /\ (\A t \in Steps :
        game_over => (IF t.op = "reset" THEN t.trail = <<>>
                                       ELSE t.trail = trail))

\* The session was Lost to an enemy a tick ago and the trail of two or
\* more cells is still there.
C25_Witness ==
  /\ op = "skip" /\ game_over
  /\ message = MSG_ENEMY_TRAIL
  /\ Len(trail) >= 2 /\ drawing

\* C26, as stated: reset_game_state rejects a configuration outside sane
\* ranges (a grid of no column or no row, a win threshold outside
\* (0, 100]) with a configuration error, and builds no game state from it:
\* every field is left as it was.
C26_BadConfigRejected ==
  [][(op' = "reset" /\ ~SaneConfig(config)) =>
       (branch' = "ConfigurationError" /\ UNCHANGED game)]_vars

\* C26, what the code does: reset_game_state validates nothing. It raises
\* IndexError exactly on a grid with rows and no column or columns and no
\* row, after it has replaced the grid and before it writes any other
\* field; on every other configuration, a grid of no cell or a threshold
\* outside (0, 100] included, it builds the whole state: the bordered
\* grid of the configured size, the player on column GRID_WIDTH // 2 and
\* INITIAL_ENEMIES enemies; and calculate_percentage divides by
\* (GRID_WIDTH - 2) * (GRID_HEIGHT - 2) whenever that is positive, which
\* it is on the grid of no cell.
C26_NeverRejected ==
  /\ [][op' = "reset" =>
          /\ branch' \in {"built", "IndexError"}
          /\ branch' = "IndexError" <=>
               ((config.GRID_WIDTH = 0) # (config.GRID_HEIGHT = 0))
          /\ branch' = "IndexError" =>
               /\ grid' = <<>>
               /\ UNCHANGED <<player_x, player_y, enemies, trail, drawing,
                              score, game_over, game_won, message>>
          /\ branch' = "built" =>
               /\ DOMAIN grid' = CellsOf(config)
               /\ player_x' = config.GRID_WIDTH \div 2
               /\ Len(enemies') = INITIAL_ENEMIES
               /\ ~game_over' /\ ~game_won' /\ score' = 0]_vars
  /\ [](config.GRID_WIDTH = 0 /\ config.GRID_HEIGHT = 0 =>
          calculate_percentage_under(config, grid)
            = [total |-> 4, percentage |-> 0])

\* reset_game_state has built a session on a grid of no cell, with its
\* enemies, and one on a grid with cells under a win threshold above 100.
C26_Witness ==
  /\ op = "reset" /\ branch = "built"
  /\ ~SaneConfig(config)
  /\ Len(enemies) = INITIAL_ENEMIES
  /\ \/ config.GRID_WIDTH = 0 /\ config.GRID_HEIGHT = 0 /\ grid = <<>>
     \/ config.GRID_WIDTH > 2 /\ config.GRID_HEIGHT > 2
          /\ config.TARGET_PERCENTAGE > 100

\* C27: Snake never applies a 180-degree turn. In every state of a
\* session next_direction is not the opposite of direction; a key whose
\* direction is the opposite of direction changes no field of the game;
\* and the cell update_game_state would step the head to is never the
\* neck, so no update puts the head on the cell the neck was on.
C27_NoReversal ==
  /\ [](/\ next_direction # Opposite(direction)
        /\ Len(snake) >= 2 => NewHead(Snake) # snake[2])
  /\ [][(op' = "key" /\ branch' = "ignored") => UNCHANGED snake_game]_vars
  /\ [][(op' = "update" /\ Len(snake) >= 2) => snake'[1] # snake[2]]_vars

\* A snake with a neck had a turn pending when the key opposite to its
\* direction was pressed, and the key was ignored.
C27_Witness ==
  /\ op = "key" /\ branch = "ignored"
  /\ Len(snake) >= 2
  /\ next_direction # direction
  /\ ~snake_over

\* C28: on closure every cell that was in the trail becomes Border, not
\* Claimed, whether or not the closure claims a region, and a Border cell
\* stays Border for the rest of the session.
C28_TrailBecomesBorder ==
  /\ (\A t \in Steps :
        (AskedBy(t) /\ drawing /\ is_on_border_or_claimed(grid, t.dest[1], t.dest[2])) =>
          \A c \in Range(trail) : t.grid[c] = BORDER)
  /\ (\A t \in Steps :
        t.op # "reset" =>
          \A c \in Cells : grid[c] = BORDER => t.grid[c] = BORDER)

\* A closure that claimed no region was followed by one that did: the
\* first trail's cell is still Border, apart from the second trail.
C28_Witness ==
  /\ op = "move" /\ branch = "close"
  /\ \E c \in Interior : grid[c] = CLAIMED
  /\ \E c, d \in Interior :
       /\ grid[c] = BORDER /\ grid[d] = BORDER
       /\ c # d /\ ~Adjacent(c, d)
       /\ \A e \in Interior : grid[e] = BORDER => e \in {c, d}

\* C29, as stated: within one claim_territory pass each interior cell is
\* collected by at most one flood fill: a cell visited by an earlier flood
\* fill of the pass, a cell of a region left Empty around an enemy
\* included, is neither the start of nor collected by a later flood fill
\* of that pass.
C29_EachCellFilledOnce ==
  [][Closes =>
       LET F == FloodFillsOfPass(grid, trail, enemies)
       IN  \A i, j \in DOMAIN F :
             i < j => /\ F[j].start \notin Range(F[i].area)
                      /\ Range(F[i].area) \cap Range(F[j].area) = {}]_vars

\* C29, what the program does: a pass keeps no record of the cells its
\* flood fills have visited. A cell that ends Claimed is collected by one
\* flood fill; a region left Empty around an enemy is flood-filled again
\* from each of its cells, once per cell, every time in full.
C29_EnemyRegionsRefilled ==
  [][Closes =>
       LET F == FloodFillsOfPass(grid, trail, enemies)
       IN  /\ \A c \in Interior :
                grid'[c] = CLAIMED /\ grid[c] = EMPTY =>
                  Cardinality({i \in DOMAIN F : c \in Range(F[i].area)}) = 1
           /\ \A c \in Interior :
                grid'[c] = EMPTY =>
                  /\ \E i \in DOMAIN F : F[i].start = c
                  /\ Cardinality({i \in DOMAIN F : c \in Range(F[i].area)})
                       = Cardinality(EmptyRegion(grid', c))]_vars

\* A closure has just left a region of two or more Empty cells around an
\* enemy and claimed another: a pass over this board flood-fills the
\* region that was left from its first cell and again from its second.
C29_Witness ==
  /\ op = "move" /\ branch = "close"
  /\ \E c \in Interior : grid[c] = CLAIMED
  /\ LET F == FloodFillsOfPass(grid, <<>>, enemies)
     IN  /\ Len(F) >= 2
         /\ F[2].start \in Range(F[1].area)
         /\ Range(F[1].area) = Range(F[2].area)

\* The four neighbours of a cell.
Neighbours(c) ==
  {<<c[1], c[2] + 1>>, <<c[1], c[2] - 1>>, <<c[1] + 1, c[2]>>, <<c[1] - 1, c[2]>>}

\* A is the maximal 4-connected set of Empty in-grid cells of g that holds
\* c, listed by the sequence a: a lists A, starts at c and every later
\* cell touches an earlier one (A is connected); the cells are Empty cells
\* of the grid; and every Empty neighbour of a cell of A is in A (A is
\* maximal).
IsRegionOf(g, c, a) ==
  LET A == Range(a)
  IN  /\ a # <<>> /\ a[1] = c
      /\ \A i \in 2 .. Len(a) : \E j \in 1 .. (i - 1) : Adjacent(a[i], a[j])
      /\ \A d \in A : d \in Cells /\ g[d] = EMPTY
      /\ \A d \in A : \A n \in Neighbours(d) \cap Cells : g[n] = EMPTY => n \in A

\* flood_fill on the grid g with the enemies en meets its contract from
\* every start on the board and one cell around it.
FloodFillContract(g, en) ==
  \A c \in AroundBoard :
    LET f == flood_fill(g, en, c[1], c[2])
    IN  /\ IF c \in Cells /\ g[c] = EMPTY
           THEN IsRegionOf(g, c, f.area)
           ELSE f.area = <<>>
        /\ Len(f.area) = Cardinality(Range(f.area))
        /\ f.has_enemy <=> EnemyIn(en, Range(f.area))

\* C30: flood_fill(start) returns exactly the maximal 4-connected set of
\* Empty in-grid cells that holds start, each cell once (the empty list
\* when start is not Empty or is off the board), and has_enemy is true
\* exactly when some enemy's quantized position is in that set: on the
\* board a session starts with, on every board claim_territory hands to
\* it (the grid of a closure with the trail turned to Border) and on
\* every board a closure leaves. (The result is the area and the flag
\* alone: flood_fill writes no grid cell.)
C30_FloodFillIsRegion ==
  /\ op \in {"start", "reset"} => FloodFillContract(grid, enemies)
  /\ (\A t \in Steps :
        ClosesBy(t) =>
          /\ FloodFillContract(MarkTrail(grid, trail), enemies)
          /\ FloodFillContract(t.grid, t.enemies))

\* A closure has just cut the board: the enemy's quantized position is in
\* a region of three or more Empty cells, flood_fill from a cell of that
\* region returns the region with has_enemy, and from a Claimed cell the
\* empty list without it.
C30_Witness ==
  /\ op = "move" /\ branch = "close"
  /\ \E c, d \in Interior :
       /\ grid[c] = EMPTY /\ grid[d] = CLAIMED
       /\ flood_fill(grid, enemies, c[1], c[2]).has_enemy
       /\ Len(flood_fill(grid, enemies, c[1], c[2]).area) >= 3
       /\ Range(flood_fill(grid, enemies, c[1], c[2]).area) = EmptyRegion(grid, c)
       /\ flood_fill(grid, enemies, d[1], d[2]) = [area |-> <<>>, has_enemy |-> FALSE]

\* The enemy e was stepped on the grid g by the bounce rule of the
\* specification and came out as e2: the cell is the one of the moved
\* position; an axis is reversed exactly when the moved coordinate is
\* within the radius of a world edge or that cell is on the board and
\* Border or Claimed; a reversed axis ends at the old coordinate minus the
\* old velocity, the other at the old coordinate plus the velocity.
BounceRule(g, e, e2) ==
  LET x1 == e.x + e.vx
      y1 == e.y + e.vy
      cell == <<x1 \div GRID_SIZE, y1 \div GRID_SIZE>>
      solid == cell \in Cells /\ g[cell] \in {BORDER, CLAIMED}
      rx == x1 <= RADIUS \/ x1 >= GRID_WIDTH * GRID_SIZE - RADIUS \/ solid
      ry == y1 <= RADIUS \/ y1 >= GRID_HEIGHT * GRID_SIZE - RADIUS \/ solid
  IN  /\ e2.vx = IF rx THEN 0 - e.vx ELSE e.vx
      /\ e2.x = IF rx THEN e.x - e.vx ELSE e.x + e.vx
      /\ e2.vy = IF ry THEN 0 - e.vy ELSE e.vy
      /\ e2.y = IF ry THEN e.y - e.vy ELSE e.y + e.vy

\* The enemy i was not stepped: an enemy before it hit the trail and ended
\* the loop of update_enemies.
LoopEndedBefore(i) ==
  /\ drawing
  /\ \E j \in 1 .. (i - 1) :
       \E k \in DOMAIN trail : DistSq(enemies'[j], trail[k]) < HitRadiusSq

\* The same of the step t: the loop of update_enemies ended before enemy i.
LoopEndedBeforeIn(t, i) ==
  /\ drawing
  /\ \E j \in 1 .. (i - 1) :
       \E k \in DOMAIN trail : DistSq(t.enemies[j], trail[k]) < HitRadiusSq

\* C31: in one update_enemies every enemy the loop reaches is stepped by
\* the bounce rule: position += velocity; vx is negated iff the moved x is
\* within the radius of the left or right world edge or the cell of the
\* moved position, quantized once, is on the board and Border or Claimed,
\* and x is then shifted by twice the new vx; the same for vy and y with
\* the same cell. A reversed axis ends at the old position minus the old
\* velocity, a kept axis at the old position plus the velocity. An enemy
\* the loop does not reach is left as it was.
C31_BounceRule ==
  (\A t \in Steps :
     t.op = "enemies" =>
       \A i \in DOMAIN enemies :
         IF LoopEndedBeforeIn(t, i)
         THEN t.enemies[i] = enemies[i]
         ELSE BounceRule(grid, enemies[i], t.enemies[i]))

\* An enemy has just bounced off a Claimed cell of the interior: the cell
\* of the position it moved to before the nudge is Claimed, and its
\* velocity points away from it on both axes.
C31_Witness ==
  /\ op = "enemies" /\ branch = "bounce"
  /\ \E i \in DOMAIN enemies :
       LET e == enemies[i]
           cell == <<(e.x - 2 * e.vx) \div GRID_SIZE,
                     (e.y - 2 * e.vy) \div GRID_SIZE>>
       IN  cell \in Interior /\ grid[cell] = CLAIMED

\* The cell of the pixel position <<x, y>>.
CellAt(x, y) == <<x \div GRID_SIZE, y \div GRID_SIZE>>

ClosedThisTick == op = "move" /\ branch = "close" /\ phase = "enemies"

\* C33, as stated: on a tick whose move closes the trail the enemy advance
\* of the tick precedes the claim: the positions the claim read (the
\* closure leaves the enemies as it read them) are the positions after
\* that tick's enemy movement, so no enemy moves in the rest of the tick.
C33_ClaimAfterEnemyAdvance ==
  [][ClosedThisTick => enemies' = enemies]_vars

\* C33, amended: on a tick whose move closes the trail the claim precedes
\* the enemy advance of the tick. The closure is the first operation of
\* the tick and moves no enemy; it leaves Empty exactly the regions that
\* hold an enemy at the position the enemy had before the tick; and
\* unless the closure won the session, update_enemies then moves every
\* enemy, after the claim, on the grid the closure left, with no trail
\* left to hit.
C33_ClaimBeforeEnemyAdvance ==
  /\ (\A t \in Steps :
        ClosesBy(t) =>
          /\ phase = "move" /\ t.phase = "enemies"
          /\ t.enemies = enemies
          /\ \A c \in Interior :
               TrailView(grid, trail)[c] = EMPTY =>
                 (t.grid[c] = EMPTY
                    <=> EnemyIn(enemies, EmptyRegion(TrailView(grid, trail), c))))
  /\ (\A t \in Steps :
        ClosedThisTick =>
          IF game_won
          THEN t.op = "skip" /\ t.enemies = enemies
          ELSE /\ t.op = "enemies"
               /\ \A i \in DOMAIN enemies :
                    BounceRule(grid, enemies[i], t.enemies[i])
               /\ t.grid = grid /\ ~t.game_over)

\* A closure has just claimed a region without winning; the enemy whose
\* region it left Empty has not moved yet in this tick, and its step, the
\* next operation of the tick, takes it to another cell.
C33_Witness ==
  /\ ClosedThisTick /\ ~game_won
  /\ \E c \in Interior : grid[c] = CLAIMED
  /\ \E i \in DOMAIN enemies :
       /\ grid[Quantized(enemies[i])] = EMPTY
       /\ Quantized(MoveEnemy(grid, enemies[i])) # Quantized(enemies[i])

\* C34: claim_territory always terminates, for every grid and every enemy
\* set: the call, run statement by statement, reaches its end. Each
\* flood_fill collects no cell twice, so it pops at most one entry plus
\* four per cell of the board before its stack is empty; the scan never
\* goes back, moves on by one cell after every flood fill, and ends past
\* the last interior cell; and the grid it leaves is the one
\* claim_territory is defined to return.
C34_ClaimTerminates ==
  /\ <>(claim_pass.pc = "done")
  /\ [](claim_pass.pc = "fill" =>
          /\ Len(claim_pass.area) = Cardinality(Range(claim_pass.area))
          /\ claim_pass.pops + Len(claim_pass.stack)
               = 1 + 4 * Len(claim_pass.area)
          /\ claim_pass.pops <= 1 + 4 * Total)
  /\ [][/\ claim_pass'.i \in {claim_pass.i, claim_pass.i + 1}
        /\ op' = "filled" => claim_pass'.i = claim_pass.i + 1]_vars
  /\ [](claim_pass.pc = "done" =>
          /\ claim_pass.i = Total + 1
          /\ grid = claim_territory(claim_pass.g0, trail, enemies))

\* A call has ended after it claimed a region and left another, of two
\* or more cells, to the enemy in it.
C34_Witness ==
  /\ claim_pass.pc = "done"
  /\ \E c \in Interior : claim_pass.g0[c] = EMPTY /\ grid[c] = CLAIMED
  /\ \E i \in DOMAIN enemies :
       Cardinality(EmptyRegion(grid, Quantized(enemies[i]))) >= 2

Abs(v) == IF v < 0 THEN 0 - v ELSE v

C37_DrawingIffTrail == drawing <=> trail # <<>>

\* The session was lost while drawing, and the drawing flag and the trail
\* are both still set.
C37_Witness == game_over /\ drawing /\ Len(trail) >= 2

\* C38: while drawing, the trail is a contiguous path that ends at the
\* player: the player's position is the last trail element, every two
\* consecutive trail elements are 4-adjacent, and the first trail element
\* is 4-adjacent to a Border or Claimed cell.
C38_TrailIsPath ==
  drawing =>
    /\ trail # <<>>
    /\ trail[Len(trail)] = <<player_x, player_y>>
    /\ \A k \in 1 .. Len(trail) - 1 : Adjacent(trail[k], trail[k + 1])
    /\ \E c \in Cells : /\ Adjacent(c, trail[1])
                        /\ grid[c] \in {BORDER, CLAIMED}

\* A trail that turned a corner: three cells, not all in one row or
\* column, with the player on the last of them.
C38_Witness ==
  /\ drawing /\ Len(trail) >= 3 /\ ~game_over
  /\ trail[1][1] # trail[3][1] /\ trail[1][2] # trail[3][2]
  /\ trail[Len(trail)] = <<player_x, player_y>>

\* C39: within a session a grid cell only ever changes from Empty to
\* Border or from Empty to Claimed, never back and never between Border
\* and Claimed; every cell of the active trail is still Empty in the grid
\* until the closure; and no reachable grid holds the TRAIL value.
C39_GridMonotone ==
  /\ (\A t \in Steps :
        t.op # "reset" =>
          \A c \in Cells :
            \/ t.grid[c] = grid[c]
            \/ grid[c] = EMPTY /\ t.grid[c] \in {BORDER, CLAIMED})
  /\ (\A k \in DOMAIN trail : grid[trail[k]] = EMPTY)
  /\ (\A c \in Cells : grid[c] \in {EMPTY, CLAIMED, BORDER})

\* A closure has just turned the cells of a trail to Border and an
\* enclosed cell to Claimed, and a new trail is being drawn on cells the
\* grid still holds as Empty.
C39_Witness ==
  /\ drawing /\ Len(trail) >= 2
  /\ \E c \in Interior : grid[c] = BORDER
  /\ \E c \in Interior : grid[c] = CLAIMED

\* Every helicopter of the current wave has been spawned, and every
\* helicopter and paratrooper has been shot or has left the screen: none
\* that is alive is left in the lists, and none has landed.
WaveCleared ==
  /\ ~para.game_over
  /\ para.helis_spawned >= para.wave_helicopters
  /\ \A i \in DOMAIN para.helicopters : ~para.helicopters[i].alive
  /\ \A j \in DOMAIN para.paratroopers : ~para.paratroopers[j].alive

\* C40: Paratrooper wave progress: once every helicopter of the current
\* wave has been spawned and every helicopter and paratrooper has been
\* shot or has left the screen, the check_wave_completion of that tick
\* advances wave by one and resets helis_spawned to 0, so that no tick
\* ends with the wave cleared and not advanced, and under continued ticks
\* a cleared wave is followed by the next wave.
C40_WaveAdvances ==
  /\ [](op = "update" => ~WaveCleared)
  /\ \A w \in 1 .. MAX_WAVE_HELICOPTERS :
       (WaveCleared /\ para.wave = w) ~> (para.wave = w + 1)

\* A tick has ended with every helicopter of the wave spawned and shot,
\* all of them still in the list of helicopters, and the wave as it was.
C40_Witness ==
  /\ op = "update" /\ WaveCleared
  /\ Len(para.helicopters) = para.wave_helicopters
  /\ para.score >= HELI_SCORE * para.wave_helicopters
  /\ para.wave = 1 /\ para.helis_spawned = para.wave_helicopters

====
